---- MODULE Spec2Model ----
(***************************************************************************)
(* The resumable EVM Machine of evm_loader (executor.rs): a stack of      *)
(* interpreter frames over a stack of sub-states, driven by step(),       *)
(* execute(), execute_n_steps(n), and persisted by save_into / restore.   *)
(***************************************************************************)
EXTENDS Integers, Sequences, FiniteSets, TLC

\* ------------------------------------------------------------------ bounds

\* config.call_stack_limit of the model's evm::Config
CallStackLimit == 1
\* config.create_contract_limit of the model's evm::Config, in bytes
CreateContractLimit == 1
\* the largest n a driver passes to execute_n_steps
MaxN == 2

\* The most step() calls an uninterrupted execute() is followed for.
Fuel == 12

\* The most insert and remove calls a HAMT sees in one run.
MaxHamtOps == 4

\* The most keys the emulator collects as not found.
MaxNew == 3

\* The largest length a wire-format length field announces in the inputs
\* of unpack.
MaxCount == 2

\* The largest nonce the host operations are tried with.
MaxNonce == 2

\* The bytes of code an account blob has room for.
CodeCapacity == 2

\* The most effects the Handler operations stage in one run.
MaxStaged == 4

\* The largest balance an account of the Handler's backend starts with.
MaxBalance == 2

\* ------------------------------------------------------------ address space

\* E-addrs as small numbers: the outer caller, two deployed contracts, the
\* address CREATE derives, the CPI sentinel, an address that differs from the
\* sentinel in one of its middle bytes only, and an address no account has.
Addr == [user |-> 0, a1 |-> 1, a2 |-> 2, n1 |-> 3, sol |-> 4, like |-> 5, none |-> 6]

Addrs == 0..6

Fill(b, n) == [i \in 1..n |-> b]

\* The 20 bytes of each E-addr.
H160(a) ==
  CASE a = Addr.sol -> <<255, 0>> \o Fill(0, 18)
    [] a = Addr.like -> <<255, 0>> \o Fill(0, 8) \o <<1>> \o Fill(0, 9)
    [] OTHER -> Fill(0, 19) \o <<a + 1>>

\* impl Display for H160: "0x", the first two bytes, an ellipsis, the last
\* two bytes.
Display(h) == <<"0x", h[1], h[2], "...", h[Len(h) - 1], h[Len(h)]>>

None == <<>>

Some(x) == <<x>>

\* ------------------------------------------------------------ exit reasons

\* evm::ExitReason values the model distinguishes; a status byte is an index
\* into this table, 0 standing for a runtime that has not exited.
ExitReasons ==
  << <<"Succeed", "Stopped">>,
     <<"Succeed", "Returned">>,
     <<"Error", "InvalidOpcode">>,
     <<"Error", "CallTooDeep">>,
     <<"Error", "CreateContractLimit">>,
     <<"Revert", "Reverted">>,
     <<"Fatal", "NotSupported">> >>

ReasonIx(r) == CHOOSE i \in 1..Len(ExitReasons) : ExitReasons[i] = r

IsFailure(r) == r[1] \in {"Error", "Revert", "Fatal"}

\* ---------------------------------------------------------------- opcodes

\* The interpreter's instruction set, abstracted: a code byte is an index
\* into this table, any other byte is an invalid opcode.
Opcodes ==
  << [op |-> "STOP",    arg |-> 0],
     [op |-> "RETURN",  arg |-> 1],
     [op |-> "RETURN",  arg |-> CreateContractLimit + 1],
     [op |-> "REVERT",  arg |-> 1],
     [op |-> "FATAL",   arg |-> 0],
     [op |-> "SSTORE",  arg |-> 1],
     [op |-> "SSTORE",  arg |-> 2],
     [op |-> "LOG",     arg |-> 1],
     [op |-> "CALL",    arg |-> Addr.a1],
     [op |-> "CALL",    arg |-> Addr.a2],
     [op |-> "CALL",    arg |-> Addr.n1],
     [op |-> "CALL",    arg |-> Addr.sol],
     [op |-> "CREATE",  arg |-> 1],
     [op |-> "CREATE",  arg |-> 2],
     [op |-> "CREATE",  arg |-> 3] >>

Op(b) == IF b \in 1..Len(Opcodes) THEN Opcodes[b] ELSE [op |-> "INVALID", arg |-> 0]

B(name, a) == CHOOSE i \in 1..Len(Opcodes) : Opcodes[i] = [op |-> name, arg |-> a]

InvalidByte == Len(Opcodes) + 1

\* Init codes a CREATE opcode can pass (its arg indexes this table): one
\* returning code within the limit, one returning code over it, one reverting.
InitCodes ==
  << <<B("SSTORE", 2), B("RETURN", 1)>>,
     <<B("SSTORE", 2), B("RETURN", CreateContractLimit + 1)>>,
     <<B("SSTORE", 2), B("REVERT", 1)>> >>

\* Contract codes a deployed account may hold.
Programs ==
  { <<B("STOP", 0)>>,
    <<B("SSTORE", 1), B("RETURN", 1)>>,
    <<B("SSTORE", 1), B("REVERT", 1)>>,
    <<B("LOG", 1), InvalidByte>>,
    <<B("FATAL", 0)>>,
    <<B("CALL", Addr.a2), B("SSTORE", 2), B("RETURN", 1)>>,
    <<B("CALL", Addr.a1), B("RETURN", 1)>>,
    <<B("CREATE", 1), B("CALL", Addr.n1), B("RETURN", 1)>>,
    <<B("CREATE", 2), B("SSTORE", 1)>>,
    <<B("CREATE", 3), B("SSTORE", 1)>>,
    <<B("CALL", Addr.sol), B("SSTORE", 1)>>,
    <<B("CREATE", 1), B("CREATE", 1)>> }

\* ------------------------------------------------ ExecutorState (sub-states)

\* A staged effect: k is its kind ("nonce", "storage", "code", "log",
\* "touch", "balance", "deleted"), a the account, x a number (nonce, storage key), d its bytes.
Effect(k, a, x, d) == [k |-> k, a |-> a, x |-> x, d |-> d]

EffectKinds == <<"nonce", "storage", "code", "log", "touch", "balance", "deleted">>

\* ExecutorState::new: one base sub-state, not entered by any frame.
StateNew == << [depth |-> None, eff |-> <<>>] >>

Depth(st) == st[Len(st)].depth

\* state.enter: push an empty sub-state one level deeper.
Enter(st) ==
  Append(st, [depth |-> IF Depth(st) = None THEN Some(0) ELSE Some(Depth(st)[1] + 1),
              eff |-> <<>>])

\* state.exit_commit: merge the top sub-state into its parent; an error on
\* the base sub-state.
ExitCommit(st) ==
  IF Len(st) < 2 THEN [ok |-> FALSE, st |-> st]
  ELSE [ok |-> TRUE,
        st |-> [SubSeq(st, 1, Len(st) - 1) EXCEPT
                  ![Len(st) - 1].eff = @ \o st[Len(st)].eff]]

\* state.exit_revert: drop the top sub-state and its effects.
ExitRevert(st) ==
  IF Len(st) < 2 THEN [ok |-> FALSE, st |-> st]
  ELSE [ok |-> TRUE, st |-> SubSeq(st, 1, Len(st) - 1)]

\* state.exit_discard: drop the top sub-state and its effects.
ExitDiscard(st) ==
  IF Len(st) < 2 THEN [ok |-> FALSE, st |-> st]
  ELSE [ok |-> TRUE, st |-> SubSeq(st, 1, Len(st) - 1)]

Stage(st, e) == [st EXCEPT ![Len(st)].eff = Append(@, e)]

RECURSIVE AllEffects(_)
AllEffects(st) ==
  IF st = <<>> THEN <<>> ELSE AllEffects(SubSeq(st, 1, Len(st) - 1)) \o st[Len(st)].eff

MaxOf(S) == CHOOSE i \in S : \A j \in S : j <= i

LastOf(all, hits) == IF hits = {} THEN None ELSE Some(all[MaxOf(hits)])

LatestIn(all, k, a, x) ==
  LastOf(all, {i \in 1..Len(all) : all[i].k = k /\ all[i].a = a /\ all[i].x = x})

\* The latest staged effect of kind k on account a (and key x), if any.
Latest(st, k, a, x) == LatestIn(AllEffects(st), k, a, x)

NonceOr(l, be, a) == IF l = None THEN be.nonce[a] ELSE l[1].d[1]

\* state.basic(a).nonce
Nonce(st, be, a) == NonceOr(Latest(st, "nonce", a, 0), be, a)

\* state.inc_nonce(a)
IncNonce(st, be, a) == Stage(st, Effect("nonce", a, 0, <<Nonce(st, be, a) + 1>>))

\* state.touch(a)
Touch(st, a) == Stage(st, Effect("touch", a, 0, <<>>))

\* state.set_code(a, code)
SetCode(st, a, code) == Stage(st, Effect("code", a, 0, code))

\* state.code(a): staged code first, the backend's otherwise.
CodeOr(l, be, a) == IF l = None THEN be.code[a] ELSE l[1].d

Code(st, be, a) == CodeOr(Latest(st, "code", a, 0), be, a)

\* state.set_storage(a, key, value)
SetStorage(st, a, key, value) == Stage(st, Effect("storage", a, key, <<value>>))

\* state.log(a, topics, data)
Log(st, a, data) == Stage(st, Effect("log", a, 0, data))

BalanceOr(l, be, a) == IF l = None THEN be.balance[a] ELSE l[1].d[1]

\* state.basic(a).balance: the staged balance first, the backend's otherwise.
Balance(st, be, a) == BalanceOr(Latest(st, "balance", a, 0), be, a)

SetBalance(st, a, value) == Stage(st, Effect("balance", a, 0, <<value>>))

\* state.reset_balance(a)
ResetBalance(st, a) == SetBalance(st, a, 0)

\* state.set_deleted(a)
SetDeleted(st, a) == Stage(st, Effect("deleted", a, 0, <<>>))

\* state.deleted(a)
Deleted(st, a) == Latest(st, "deleted", a, 0) # None

Deposit(st, be, target, value) == SetBalance(st, target, Balance(st, be, target) + value)

\* state.transfer: withdraw from the source, an OutOfFund error when its
\* balance is short, then deposit to the target.
Transfer(st, be, source, target, value) ==
  IF Balance(st, be, source) < value THEN [ok |-> FALSE, st |-> st]
  ELSE [ok |-> TRUE,
        st |-> Deposit(SetBalance(st, source, Balance(st, be, source) - value), be,
                       target, value)]

\* The sub-states have an account entry for a: something of it was staged.
KnownIn(all, a) ==
  \E i \in 1..Len(all) : all[i].a = a /\ all[i].k \in {"nonce", "code", "balance", "touch"}

\* state.exists(a)
StateExists(st, be, a) == KnownIn(AllEffects(st), a) \/ be.exists[a]

\* state.is_empty(a): no balance, no nonce, no code.
IsEmpty(st, be, a) == Balance(st, be, a) = 0 /\ Nonce(st, be, a) = 0 /\ Code(st, be, a) = <<>>

\* ----------------------------------------------------------------- Backend

\* SolanaBackend::is_solana_address
IsSolanaAddress(a) == Display(H160(a)) = <<"0x", 255, 0, "...", 0, 0>>

\* A host key (Pubkey, 32 bytes); the account at position p has Pubkey(p).
Pubkey(n) == Fill(0, 31) \o <<n>>

\* SolanaBackend::find_account: the position the alias table has for an
\* address (aliases: (address, position) pairs, sorted by address).
FindAccount(aliases, address) ==
  IF \E i \in 1..Len(aliases) : aliases[i][1] = address
  THEN Some(aliases[CHOOSE i \in 1..Len(aliases) : aliases[i][1] = address][2])
  ELSE None

\* find_account(H160::from_slice(acc))
FindAccountAt(aliases, acc) ==
  IF \E i \in 1..Len(aliases) : H160(aliases[i][1]) = acc
  THEN Some(aliases[CHOOSE i \in 1..Len(aliases) : H160(aliases[i][1]) = acc][2])
  ELSE None

\* Ord for H160: the bytes, in order.
RECURSIVE BytesLess(_, _)
BytesLess(x, y) ==
  IF x = <<>> \/ y = <<>> THEN x = <<>> /\ y # <<>>
  ELSE IF x[1] # y[1] THEN x[1] < y[1]
  ELSE BytesLess(Tail(x), Tail(y))

\* aliases.push(entry); aliases.sort_by_key(|v| v.0) on a sorted table: the
\* sort is stable, the pushed entry goes after all that are not greater.
RECURSIVE PushSorted(_, _)
PushSorted(aliases, entry) ==
  IF aliases = <<>> THEN <<entry>>
  ELSE IF BytesLess(H160(entry[1]), H160(Head(aliases)[1])) THEN <<entry>> \o aliases
  ELSE <<Head(aliases)>> \o PushSorted(Tail(aliases), entry)

AddAliasPastEnd(accounts, aliases, address, pubkey) ==
  PushSorted(aliases, <<address, Len(accounts) + 1>>)

\* SolanaBackend::add_alias: the first account with this host key gets the
\* alias; without one nothing happens.
AddAlias(accounts, aliases, address, pubkey) ==
  IF \E i \in DOMAIN accounts : Pubkey(i) = pubkey
  THEN PushSorted(aliases, <<address, CHOOSE i \in DOMAIN accounts :
                                         /\ Pubkey(i) = pubkey
                                         /\ \A j \in 1..(i - 1) : Pubkey(j) # pubkey>>)
  ELSE aliases

\* CreateScheme: Create2 with its salt, or Legacy.
Create2(salt) == [kind |-> "Create2", salt |-> salt]

Legacy == [kind |-> "Legacy"]

\* Backend::create
BackendCreate(accounts, aliases, scheme, address) ==
  AddAlias(accounts, aliases, address,
           IF scheme.kind = "Create2" THEN scheme.salt ELSE Fill(0, 32))

\* u16::from_be_bytes
U16(b) == b[1] * 256 + b[2]

\* What call_inner comes to: res is what it returns (None, or Some(Exit)),
\* invoked the instructions it handed to invoke(), panic whether it aborted.
CpiPanic == [res |-> None, panic |-> TRUE, invoked |-> <<>>]

CpiExit(reason, invoked) ==
  [res |-> Some(<<"Exit", reason, <<>>>>), panic |-> FALSE, invoked |-> invoked]

\* call_inner, lines 264-282: data_len, data, invoke, Succeed(Stopped).
ParseData(program_id, metas, infos, sl) ==
  IF Len(sl) < 2 THEN CpiPanic
  ELSE IF U16(sl) > Len(sl) - 2 THEN CpiPanic
  ELSE CpiExit(<<"Succeed", "Stopped">>,
               << [program_id |-> program_id, accounts |-> metas,
                   data |-> SubSeq(sl, 3, 2 + U16(sl)), infos |-> infos] >>)

AccountMeta(pubkey, sl, acc_len) ==
  [pubkey |-> pubkey, is_signer |-> sl[acc_len + 1] # 0, is_writable |-> sl[acc_len + 2] # 0]

\* call_inner, lines 227-262: the loop over the accounts. rest is the slice
\* after accounts_len, which every turn reads needs_translate from; sl is
\* the slice every turn reads the key and the two flags from, and advances.
RECURSIVE ParseAccounts(_, _, _, _, _, _, _)
ParseFound(aliases, program_id, rest, sl, n, metas, infos, acc_len, found) ==
  IF found = None THEN CpiExit(<<"Error", "InvalidRange">>, <<>>)
  ELSE ParseAccounts(aliases, program_id, rest, SubSeq(sl, acc_len + 3, Len(sl)), n - 1,
                     Append(metas, AccountMeta(Pubkey(found[1]), sl, acc_len)),
                     Append(infos, found[1]))

ParseEntry(aliases, program_id, rest, sl, n, metas, infos, needs_translate, acc_len) ==
  IF Len(sl) < acc_len + 2 THEN CpiPanic
  ELSE IF needs_translate
  THEN ParseFound(aliases, program_id, rest, sl, n, metas, infos, acc_len,
                  FindAccountAt(aliases, SubSeq(sl, 1, acc_len)))
  ELSE ParseAccounts(aliases, program_id, rest, SubSeq(sl, acc_len + 3, Len(sl)), n - 1,
                     Append(metas, AccountMeta(SubSeq(sl, 1, acc_len), sl, acc_len)), infos)

ParseAccounts(aliases, program_id, rest, sl, n, metas, infos) ==
  IF n = 0 THEN ParseData(program_id, metas, infos, sl)
  ELSE IF rest = <<>> THEN CpiPanic
  ELSE ParseEntry(aliases, program_id, rest, sl, n, metas, infos, rest[1] # 0,
                  IF rest[1] # 0 THEN 20 ELSE 32)

\* call_inner, lines 215-226: program_id, accounts_len.
ParseProgram(aliases, program_id_len, rest) ==
  IF Len(rest) < program_id_len \/ program_id_len # 32 THEN CpiPanic
  ELSE IF Len(rest) < program_id_len + 2 THEN CpiPanic
  ELSE ParseAccounts(aliases, SubSeq(rest, 1, program_id_len),
                     SubSeq(rest, program_id_len + 3, Len(rest)),
                     SubSeq(rest, program_id_len + 3, Len(rest)),
                     U16(SubSeq(rest, program_id_len + 1, program_id_len + 2)), <<>>, <<>>)

\* SolanaBackend::call_inner on a backend with this alias table.
CallInnerOn(aliases, code_address, input) ==
  IF ~IsSolanaAddress(code_address) THEN [res |-> None, panic |-> FALSE, invoked |-> <<>>]
  ELSE IF Len(input) < 2 THEN CpiPanic
  ELSE ParseProgram(aliases, U16(input), SubSeq(input, 3, Len(input)))

\* The CPI escape wire format: an instruction as the bytes of a payload.
EncU16(n) == <<n \div 256, n % 256>>

RECURSIVE EncodeAccounts(_)
EncodeAccounts(accs) ==
  IF accs = <<>> THEN <<>>
  ELSE <<IF Head(accs).needs_translate THEN 1 ELSE 0>> \o Head(accs).key
         \o <<IF Head(accs).is_signer THEN 1 ELSE 0, IF Head(accs).is_writable THEN 1 ELSE 0>>
         \o EncodeAccounts(Tail(accs))

EncodePayload(ix) ==
  EncU16(Len(ix.program_id)) \o ix.program_id \o EncU16(Len(ix.accounts))
    \o EncodeAccounts(ix.accounts) \o EncU16(Len(ix.data)) \o ix.data

\* The instructions the model's callers ask the sentinel for: a program id,
\* accounts named by host key or by E-addr, and data.
CpiAccount(needs_translate, key, is_signer, is_writable) ==
  [needs_translate |-> needs_translate, key |-> key, is_signer |-> is_signer,
   is_writable |-> is_writable]

CpiRequest(accounts) == [program_id |-> Pubkey(9), accounts |-> accounts, data |-> <<7>>]

CpiRequests ==
  << CpiRequest(<<>>),
     CpiRequest(<<CpiAccount(FALSE, Pubkey(2), FALSE, TRUE)>>),
     CpiRequest(<<CpiAccount(TRUE, H160(Addr.a1), FALSE, TRUE)>>),
     CpiRequest(<<CpiAccount(TRUE, H160(Addr.none), FALSE, TRUE)>>),
     CpiRequest(<<CpiAccount(TRUE, H160(Addr.a1), FALSE, TRUE),
                  CpiAccount(FALSE, Pubkey(2), TRUE, FALSE)>>) >>

\* The requests as the bytes of their payloads.
CpiPayloads == [k \in DOMAIN CpiRequests |-> EncodePayload(CpiRequests[k])]

\* SolanaBackend::call_inner as the Machine's handler consults it: the
\* Machine model's backend has no account views.
CallInner(code_address, input) == CallInnerOn(<<>>, code_address, input).res

\* ----------------------------------------------------------------- Handler

\* The depth check off by one: depth > call_stack_limit.
DepthExceededLate(st) == Depth(st) # None /\ Depth(st)[1] > CallStackLimit

DepthExceeded(st) == Depth(st) # None /\ Depth(st)[1] + 1 > CallStackLimit

\* The address a create scheme derives (Keccak abstracted to one value).
CreateAddress(scheme, caller) == Addr.n1

CreateTrap(st, init_code, caller, value, address) ==
  [cap |-> <<"Trap", [init_code |-> init_code,
                      context |-> [address |-> address, caller |-> caller,
                                   apparent_value |-> value],
                      address |-> address]>>,
   st |-> st, ev |-> <<"inc_nonce", "CreateInterrupt">>]

\* Executor::create
HandlerCreate(st, be, caller, scheme, value, init_code) ==
  IF DepthExceeded(st)
  THEN [cap |-> <<"Exit", <<"Error", "CallTooDeep">>, <<>>>>, st |-> st, ev |-> <<"CallTooDeep">>]
  ELSE CreateTrap(IncNonce(st, be, caller), init_code, caller, value,
                  CreateAddress(scheme, caller))

\* call that raises the interrupt whatever call_inner answered
CallHookedTraps(st, code_address, input, context, hook_res) ==
  [cap |-> <<"Trap", [code_address |-> code_address, input |-> input,
                      context |-> context]>>,
   st |-> st, ev |-> <<"call_inner", "CallInterrupt">>]

CallHooked(st, code_address, input, context, hook_res) ==
  IF hook_res # None
  THEN [cap |-> hook_res[1], st |-> st, ev |-> <<"call_inner">>]
  ELSE [cap |-> <<"Trap", [code_address |-> code_address, input |-> input,
                           context |-> context]>>,
        st |-> st, ev |-> <<"call_inner", "CallInterrupt">>]

\* call with the depth check one level late
HandlerCallLate(st, be, code_address, input, context) ==
  IF DepthExceededLate(st)
  THEN [cap |-> <<"Exit", <<"Error", "CallTooDeep">>, <<>>>>, st |-> st, ev |-> <<"CallTooDeep">>]
  ELSE CallHooked(st, code_address, input, context, CallInner(code_address, input))

\* Executor::call
HandlerCall(st, be, code_address, input, context) ==
  IF DepthExceeded(st)
  THEN [cap |-> <<"Exit", <<"Error", "CallTooDeep">>, <<>>>>, st |-> st, ev |-> <<"CallTooDeep">>]
  ELSE CallHooked(st, code_address, input, context, CallInner(code_address, input))

\* Executor::exists
HandlerExists(st, be, empty_considered_exists, address) ==
  IF empty_considered_exists THEN StateExists(st, be, address)
  ELSE StateExists(st, be, address) /\ ~IsEmpty(st, be, address)

\* mark_delete without reset_balance
MarkDeleteKeeps(t, address) ==
  IF ~t.ok THEN [st |-> t.st, res |-> <<"Err", <<"Error", "OutOfFund">>>>]
  ELSE [st |-> SetDeleted(t.st, address), res |-> <<"Ok">>]

MarkDeleteDone(t, address) ==
  IF ~t.ok THEN [st |-> t.st, res |-> <<"Err", <<"Error", "OutOfFund">>>>]
  ELSE [st |-> SetDeleted(ResetBalance(t.st, address), address), res |-> <<"Ok">>]

\* mark_delete without the transfer
MarkDeleteBurns(st, be, address, target) ==
  [st |-> SetDeleted(ResetBalance(st, address), address), res |-> <<"Ok">>]

\* Executor::mark_delete
MarkDelete(st, be, address, target) ==
  MarkDeleteDone(Transfer(st, be, address, target, Balance(st, be, address)), address)

\* ------------------------------------------------- the interpreter (Runtime)

\* evm::Runtime::new
RuntimeNew(code, input, context) ==
  [code |-> code, input |-> input, pc |-> 1, stack |-> <<>>, memory |-> <<>>,
   ret |-> <<>>, status |-> 0, context |-> context]

RECURSIVE Bytes(_)
Bytes(n) == IF n = 0 THEN <<>> ELSE Append(Bytes(n - 1), B("STOP", 0))

RtExit(rt, st, reason, ret, ev) ==
  [rt |-> [rt EXCEPT !.status = ReasonIx(reason), !.ret = ret], st |-> st,
   cap |-> <<"Exit", reason>>, ev |-> ev]

RtOk(rt, st, ev) == [rt |-> rt, st |-> st, cap |-> <<"Ok">>, ev |-> ev]

RtPushed(rt, reason, data) ==
  [rt EXCEPT !.stack = Append(@, IF reason[1] = "Succeed" THEN 1 ELSE 0),
             !.memory = IF reason[1] \in {"Succeed", "Revert"} THEN data ELSE @]

\* What the interpreter does with a handler's Capture for CALL/CREATE: a Trap
\* is passed on; on an Exit it pushes the success word, keeps the returned
\* data, and exits only on Fatal.
RtHandled(rt, h, trap) ==
  IF h.cap[1] = "Trap"
  THEN [rt |-> rt, st |-> h.st, cap |-> <<trap, h.cap[2]>>, ev |-> h.ev]
  ELSE IF h.cap[2][1] = "Fatal"
  THEN RtExit(RtPushed(rt, h.cap[2], h.cap[3]), h.st, h.cap[2], <<>>, h.ev)
  ELSE RtOk(RtPushed(rt, h.cap[2], h.cap[3]), h.st, h.ev)

\* The input a CALL passes: what the frame has in memory; the frames of the
\* model that call the sentinel have a payload with no accounts there.
CallInput(rt, code_address) ==
  IF code_address = Addr.sol THEN CpiPayloads[1] ELSE rt.memory

RtEval(rt, nx, st, be, o, self) ==
  CASE o.op = "STOP" -> RtExit(nx, st, <<"Succeed", "Stopped">>, <<>>, <<>>)
    [] o.op = "RETURN" ->
         RtExit(nx, st, <<"Succeed", "Returned">>, rt.memory \o Bytes(o.arg), <<>>)
    [] o.op = "REVERT" ->
         RtExit(nx, st, <<"Revert", "Reverted">>, rt.memory \o Bytes(o.arg), <<>>)
    [] o.op = "INVALID" -> RtExit(nx, st, <<"Error", "InvalidOpcode">>, <<>>, <<>>)
    [] o.op = "FATAL" -> RtExit(nx, st, <<"Fatal", "NotSupported">>, <<>>, <<>>)
    [] o.op = "SSTORE" -> RtOk(nx, SetStorage(st, self, 0, o.arg), <<"set_storage">>)
    [] o.op = "LOG" -> RtOk(nx, Log(st, self, <<o.arg>>), <<"log">>)
    [] o.op = "CALL" ->
         RtHandled(nx, HandlerCall(st, be, o.arg, CallInput(rt, o.arg),
                                   [address |-> o.arg, caller |-> self, apparent_value |-> 0]),
                   "TrapCall")
    [] o.op = "CREATE" ->
         RtHandled(nx, HandlerCreate(st, be, self, "Create2", 0, InitCodes[o.arg]),
                   "TrapCreate")

\* evm::Runtime::step with the Executor as handler: one opcode of one frame.
\* An exited runtime reports its exit reason again.
RuntimeStep(rt, st, be) ==
  IF rt.status # 0
  THEN [rt |-> rt, st |-> st, cap |-> <<"Exit", ExitReasons[rt.status]>>, ev |-> <<>>]
  ELSE IF rt.pc > Len(rt.code)
  THEN RtExit(rt, st, <<"Succeed", "Stopped">>, <<>>, <<>>)
  ELSE RtEval(rt, [rt EXCEPT !.pc = @ + 1], st, be, Op(rt.code[rt.pc]), rt.context.address)

\* evm_runtime::save_return_value: the child's return data and success word
\* go into the frame that made the CALL.
SaveReturnValue(rt, exit_reason, return_value) ==
  [rt EXCEPT !.stack = Append(@, IF exit_reason[1] = "Succeed" THEN 1 ELSE 0),
             !.memory = IF exit_reason[1] \in {"Succeed", "Revert"} THEN return_value ELSE @]

\* evm_runtime::save_created_address: the created address goes onto the
\* stack of the frame that made the CREATE.
SaveCreatedAddress(rt, exit_reason, created_address, return_value) ==
  [rt EXCEPT !.stack = Append(@, IF exit_reason[1] = "Succeed" THEN created_address ELSE 0)]

\* ----------------------------------------------------------------- Machine

\* Machine::new: no frame, a fresh state.
MachineNew == [runtime |-> <<>>, state |-> StateNew]

\* Machine::call_begin
CallBeginPush(rts, st, be, caller, code_address, input) ==
  [runtime |-> Append(rts, [rt |-> RuntimeNew(Code(st, be, code_address), input,
                                              [address |-> code_address, caller |-> caller,
                                               apparent_value |-> 0]),
                            reason |-> None]),
   state |-> st]

CallBeginOp(rts, st, be, caller, code_address, input) ==
  CallBeginPush(rts, Touch(Enter(IncNonce(st, be, caller)), code_address), be,
                caller, code_address, input)

\* Revert handled as Succeed is: the sub-state committed.
ExitKindCommitsRevert(reason) ==
  IF reason[1] \in {"Succeed", "Revert"} THEN "exit_commit" ELSE "exit_discard"

\* The sub-state exit Machine::step issues for each kind of exit reason.
ExitKindOf(reason) ==
  CASE reason[1] = "Succeed" -> "exit_commit"
    [] reason[1] = "Error" -> "exit_discard"
    [] reason[1] = "Revert" -> "exit_revert"
    [] reason[1] = "Fatal" -> "exit_discard"

ExitBy(kind, st) ==
  CASE kind = "exit_commit" -> ExitCommit(st)
    [] kind = "exit_revert" -> ExitRevert(st)
    [] kind = "exit_discard" -> ExitDiscard(st)

\* A failure returned only from the root, caught by the parent otherwise.
ExitReturnsAtRoot(reason, runtime_cnt) == runtime_cnt = 1

\* Every exit returned to the caller of step(), a child's Succeed included.
ExitReturnsAlways(reason, runtime_cnt) == TRUE

\* Whether Machine::step returns the exit to its caller (TRUE) or pops the
\* frame and goes on in the parent (FALSE).
ExitReturns(reason, runtime_cnt) == reason[1] # "Succeed" \/ runtime_cnt = 1

StepOut(rts, st, res, ev) == [runtime |-> rts, state |-> st, res |-> res, ev |-> ev]

\* The limit check left out.
OverCreateLimitNever(return_value) == FALSE

\* if let Some(limit) = config.create_contract_limit { return_value.len() > limit }
OverCreateLimit(return_value) == Len(return_value) > CreateContractLimit

\* Machine::step, the modify::remove arm, once the frame is popped: hand the
\* exited frame's result to the new top frame.
StepPopped(popped, st, exit_reason, return_value, runtime_reason, ev, x) ==
  IF popped = <<>> \/ runtime_reason = None THEN StepOut(popped, st, <<"Ok">>, ev)
  ELSE IF runtime_reason[1] = "Call"
  THEN StepOut([popped EXCEPT ![Len(popped)].rt = SaveReturnValue(@, exit_reason, return_value)],
               st, <<"Ok">>, Append(ev, "save_return_value"))
  ELSE IF OverCreateLimit(return_value)
  THEN IF x.ok
       THEN StepOut(popped, x.st, <<"Err", <<"Error", "CreateContractLimit">>>>,
                    Append(ev, "exit_discard"))
       ELSE StepOut(popped, st, <<"Panic">>, Append(ev, "exit_discard"))
  ELSE StepOut([popped EXCEPT ![Len(popped)].rt =
                  SaveCreatedAddress(@, exit_reason, runtime_reason[2], return_value)],
               SetCode(st, runtime_reason[2], return_value), <<"Ok">>,
               ev \o <<"set_code", "save_created_address">>)

\* Machine::step, the modify::remove arm: read the top frame's return value
\* and reason, pop it.
StepRemove(rts, st, exit_reason, ev) ==
  StepPopped(SubSeq(rts, 1, Len(rts) - 1), st, exit_reason, rts[Len(rts)].rt.ret,
             rts[Len(rts)].reason, Append(ev, "pop"), ExitDiscard(st))

StepExited(rts, st, reason, ev, x) ==
  IF ~x.ok THEN StepOut(rts, st, <<"Panic">>, ev)
  ELSE IF ExitReturns(reason, Len(rts)) THEN StepOut(rts, x.st, <<"Err", reason>>, ev)
  ELSE StepRemove(rts, x.st, reason, ev)

\* Machine::step, the Capture::Exit arm.
StepExit(rts, st, reason, ev) ==
  StepExited(rts, st, reason, Append(ev, ExitKindOf(reason)), ExitBy(ExitKindOf(reason), st))

\* The Trap arm pushing the frame without entering a sub-state.
StepTrapNoEnter(rts, st, be, cap, ev) ==
  IF cap[1] = "TrapCall"
  THEN StepOut(Append(rts, [rt |-> RuntimeNew(Code(st, be, cap[2].code_address),
                                              cap[2].input, cap[2].context),
                            reason |-> Some("Call")]),
               Touch(st, cap[2].code_address), <<"Ok">>, ev \o <<"touch", "push">>)
  ELSE StepOut(Append(rts, [rt |-> RuntimeNew(cap[2].init_code, <<>>, cap[2].context),
                            reason |-> <<"Create", cap[2].address>>]),
               st, <<"Ok">>, Append(ev, "push"))

\* Machine::step, the Capture::Trap arm: enter a sub-state and push a frame.
StepTrap(rts, st, be, cap, ev) ==
  IF cap[1] = "TrapCall"
  THEN StepOut(Append(rts, [rt |-> RuntimeNew(Code(st, be, cap[2].code_address),
                                              cap[2].input, cap[2].context),
                            reason |-> Some("Call")]),
               Touch(Enter(st), cap[2].code_address), <<"Ok">>,
               ev \o <<"enter", "touch", "push">>)
  ELSE StepOut(Append(rts, [rt |-> RuntimeNew(cap[2].init_code, <<>>, cap[2].context),
                            reason |-> <<"Create", cap[2].address>>]),
               Enter(st), <<"Ok">>, ev \o <<"enter", "push">>)

StepCaptured(rts, be, r) ==
  CASE r.cap[1] = "Ok" -> StepOut(rts, r.st, <<"Ok">>, r.ev)
    [] r.cap[1] = "Exit" -> StepExit(rts, r.st, r.cap[2], r.ev)
    [] OTHER -> StepTrap(rts, r.st, be, r.cap, r.ev)

StepTop(rts, be, r) == StepCaptured([rts EXCEPT ![Len(rts)].rt = r.rt], be, r)

\* Machine::step
MachineStep(rts, st, be) ==
  IF rts = <<>> THEN StepOut(rts, st, <<"Ok">>, <<>>)
  ELSE StepTop(rts, be, RuntimeStep(rts[Len(rts)].rt, st, be))

\* Machine::return_value
ReturnValue(rts) == IF rts = <<>> THEN <<>> ELSE rts[Len(rts)].rt.ret

\* ------------------------------------------------------- save_into / restore

\* bincode of a Vec<u8>: its length, then its bytes.
EncBytes(s) == <<Len(s)>> \o s

DecBytes(s, p) == [v |-> SubSeq(s, p + 1, p + s[p]), p |-> p + 1 + s[p]]

EncRuntime(rt) ==
  EncBytes(rt.code) \o EncBytes(rt.input) \o <<rt.pc>> \o EncBytes(rt.stack)
    \o EncBytes(rt.memory) \o EncBytes(rt.ret) \o <<rt.status>>
    \o <<rt.context.address, rt.context.caller, rt.context.apparent_value>>

DecRuntime(s, p) ==
  LET code == DecBytes(s, p)
      input == DecBytes(s, code.p)
      stack == DecBytes(s, input.p + 1)
      memory == DecBytes(s, stack.p)
      ret == DecBytes(s, memory.p)
      q == ret.p
  IN [v |-> [code |-> code.v, input |-> input.v, pc |-> s[input.p], stack |-> stack.v,
             memory |-> memory.v, ret |-> ret.v, status |-> s[q],
             context |-> [address |-> s[q + 1], caller |-> s[q + 2],
                          apparent_value |-> s[q + 3]]],
      p |-> q + 4]

\* Option<RuntimeReason>: the Option tag, the variant index, the variant's field.
EncReason(r) ==
  IF r = None THEN <<0>> ELSE IF r[1] = "Call" THEN <<1, 0>> ELSE <<1, 1, r[2]>>

DecReason(s, p) ==
  IF s[p] = 0 THEN [v |-> None, p |-> p + 1]
  ELSE IF s[p + 1] = 0 THEN [v |-> <<"Call">>, p |-> p + 2]
  ELSE [v |-> <<"Create", s[p + 2]>>, p |-> p + 3]

RECURSIVE EncFrames(_)
EncFrames(rts) ==
  IF rts = <<>> THEN <<>>
  ELSE EncRuntime(Head(rts).rt) \o EncReason(Head(rts).reason) \o EncFrames(Tail(rts))

RECURSIVE DecFrames(_, _, _)
DecFrames(s, p, n) ==
  IF n = 0 THEN [v |-> <<>>, p |-> p]
  ELSE LET rt == DecRuntime(s, p)
           rs == DecReason(s, rt.p)
           rest == DecFrames(s, rs.p, n - 1)
       IN [v |-> <<[rt |-> rt.v, reason |-> rs.v]>> \o rest.v, p |-> rest.p]

\* bincode::serialize(&self.runtime) and its inverse
SerializeRuntime(rts) == <<Len(rts)>> \o EncFrames(rts)

DeserializeRuntime(s) == DecFrames(s, 2, s[1]).v

KindIx(k) == CHOOSE i \in 1..Len(EffectKinds) : EffectKinds[i] = k

RECURSIVE EncEffects(_)
EncEffects(es) ==
  IF es = <<>> THEN <<>>
  ELSE <<KindIx(Head(es).k), Head(es).a, Head(es).x>> \o EncBytes(Head(es).d)
         \o EncEffects(Tail(es))

RECURSIVE DecEffects(_, _, _)
DecEffects(s, p, n) ==
  IF n = 0 THEN [v |-> <<>>, p |-> p]
  ELSE LET d == DecBytes(s, p + 3)
           rest == DecEffects(s, d.p, n - 1)
       IN [v |-> <<Effect(EffectKinds[s[p]], s[p + 1], s[p + 2], d.v)>> \o rest.v,
           p |-> rest.p]

RECURSIVE EncSubstates(_)
EncSubstates(st) ==
  IF st = <<>> THEN <<>>
  ELSE (IF Head(st).depth = None THEN <<0>> ELSE <<1, Head(st).depth[1]>>)
         \o <<Len(Head(st).eff)>> \o EncEffects(Head(st).eff) \o EncSubstates(Tail(st))

RECURSIVE DecSubstates(_, _, _)
DecSubstates(s, p, n) ==
  IF n = 0 THEN [v |-> <<>>, p |-> p]
  ELSE LET depth == IF s[p] = 0 THEN None ELSE Some(s[p + 1])
           q == IF s[p] = 0 THEN p + 1 ELSE p + 2
           es == DecEffects(s, q + 1, s[q])
           rest == DecSubstates(s, es.p, n - 1)
       IN [v |-> <<[depth |-> depth, eff |-> es.v]>> \o rest.v, p |-> rest.p]

\* ExecutorState::save and ExecutorState::restore
StateSave(st) == <<Len(st)>> \o EncSubstates(st)

StateRestore(s) == DecSubstates(s, 2, s[1]).v

\* save_into that writes only the frame on top of the stack.
SaveIntoTopFrame(rts, st) ==
  EncBytes(SerializeRuntime(IF rts = <<>> THEN rts ELSE <<rts[Len(rts)]>>))
    \o EncBytes(StateSave(st))

\* Machine::save_into: the pair (machine_data, executor_state_data).
SaveInto(rts, st) == EncBytes(SerializeRuntime(rts)) \o EncBytes(StateSave(st))

\* restore that builds a fresh ExecutorState instead of restoring the saved one.
RestoreFreshState(buf) ==
  [runtime |-> DeserializeRuntime(DecBytes(buf, 1).v), state |-> StateNew]

\* Machine::restore
Restore(buf) ==
  LET machine_data == DecBytes(buf, 1)
      state_data == DecBytes(buf, machine_data.p)
  IN [runtime |-> DeserializeRuntime(machine_data.v), state |-> StateRestore(state_data.v)]

\* Machine::execute as a function: step until a step returns Err. fuel bounds
\* the recursion; a run that has not ended when it is used up yields "Running".
RECURSIVE ExecuteOp(_, _, _, _)
ExecuteFrom(r, be, fuel) ==
  IF r.res = <<"Ok">> THEN ExecuteOp(r.runtime, r.state, be, fuel - 1)
  ELSE [res |-> r.res, runtime |-> r.runtime, state |-> r.state]

ExecuteOp(rts, st, be, fuel) ==
  IF fuel = 0 THEN [res |-> <<"Running">>, runtime |-> rts, state |-> st]
  ELSE ExecuteFrom(MachineStep(rts, st, be), be, fuel)

\* The loop bound off by one: for i in 0..=n.
ExecNInclusive(i, n) == i <= n

\* for i in 0..n
ExecNContinue(i, n) == i < n

\* -------------------------------------------------- SolidityAccount views

\* program_error::ProgramError values
Ok == <<"Ok">>

Err(e) == <<"Err", e>>

\* Hamt over the tail of the account blob: per key, None (unset) or Some(v).
\* The storage keys of the model.
Keys == {0, 1}

HamtEmpty == [k \in Keys |-> None]

\* Hamt::new(region, reset): binds to the region, emptied when reset.
HamtNew(storage, reset) == IF reset THEN HamtEmpty ELSE storage

\* Hamt::find
HamtFind(storage, key) == storage[key]

\* Hamt::insert: the value is kept as given, zero too.
HamtInsert(storage, key, value) == [storage EXCEPT ![key] = Some(value)]

\* Hamt::remove: the key is unset, the value it had is returned.
HamtRemove(storage, key) == [storage |-> [storage EXCEPT ![key] = None], res |-> storage[key]]

HamtInsertNone(storage, items) == storage

\* Hamt::insert, once for every item of the iterator, in its order.
RECURSIVE HamtInsertAll(_, _)
HamtInsertAll(storage, items) ==
  IF items = <<>> THEN storage
  ELSE HamtInsertAll(HamtInsert(storage, Head(items)[1], Head(items)[2]), Tail(items))

\* One host account seen through SolidityAccount: the unpacked header kept
\* in memory (account_data), and the host account itself: lamports and the
\* data blob (packed header, code region, storage region).
AccountView(trx_count, code, lamports) ==
  [account_data |-> [trx_count |-> trx_count, code_size |-> Len(code)],
   header |-> [trx_count |-> trx_count, code_size |-> Len(code)],
   code |-> code,
   storage |-> HamtEmpty,
   lamports |-> lamports]

UpdateStorageUnchecked(acc, storage_items, reset_storage) ==
  IF ~(reset_storage \/ storage_items # <<>>) THEN [acc |-> acc, res |-> Ok]
  ELSE [acc |-> [acc EXCEPT !.storage = HamtInsertAll(HamtNew(@, reset_storage),
                                                      storage_items)],
        res |-> Ok]

\* SolidityAccount::update, from line 149: the storage items.
UpdateStorage(acc, storage_items, reset_storage) ==
  IF ~(reset_storage \/ storage_items # <<>>) THEN [acc |-> acc, res |-> Ok]
  ELSE IF acc.account_data.code_size = 0
  THEN [acc |-> acc, res |-> Err("UninitializedAccount")]
  ELSE [acc |-> [acc EXCEPT !.storage = HamtInsertAll(HamtNew(@, reset_storage),
                                                      storage_items)],
        res |-> Ok]

\* self.account_data.pack(&mut data)
Pack(acc) == [acc EXCEPT !.header = acc.account_data]

\* SolidityAccount::update, lines 136-147: the code, then the header.
UpdateCode(acc, code, storage_items, reset_storage) ==
  IF code = None THEN UpdateStorage(Pack(acc), storage_items, reset_storage)
  ELSE IF acc.account_data.code_size # 0
  THEN [acc |-> acc, res |-> Err("AccountAlreadyInitialized")]
  ELSE IF Len(code[1]) > CodeCapacity
  THEN [acc |-> [acc EXCEPT !.account_data.code_size = Len(code[1])], res |-> <<"Panic">>]
  ELSE UpdateStorage(Pack([acc EXCEPT !.account_data.code_size = Len(code[1]),
                                      !.code = code[1]]),
                     storage_items, reset_storage)

\* SolidityAccount::update: lamports, trx_count, code, header, storage.
Update(acc, nonce, lamports, code, storage_items, reset_storage) ==
  UpdateCode([acc EXCEPT !.lamports = lamports, !.account_data.trx_count = nonce],
             code, storage_items, reset_storage)

\* ------------------------------------------------- SolanaBackend::apply
\* The effects an executor hands to apply.
Modify(address, nonce, balance, code, storage_items, reset_storage) ==
  [kind |-> "Modify", address |-> address, nonce |-> nonce, balance |-> balance,
   code |-> code, storage |-> storage_items, reset_storage |-> reset_storage]

Delete(address) == [kind |-> "Delete", address |-> address]

\* SolanaBackend::apply over the effects still to do; updates collects the
\* update calls made so far (the view's position and the effect).
RECURSIVE Apply(_, _, _, _)
ApplyUpdated(accounts, aliases, values, updates, pos, r) ==
  IF r.res # Ok
  THEN [accounts |-> [accounts EXCEPT ![pos] = r.acc], res |-> r.res, updates |-> updates]
  ELSE Apply([accounts EXCEPT ![pos] = r.acc], aliases, Tail(values), updates)

ApplyModifySkips(accounts, aliases, values, updates, m, found) ==
  IF found = None THEN Apply(accounts, aliases, Tail(values), updates)
  ELSE ApplyUpdated(accounts, aliases, values, Append(updates, [pos |-> found[1], m |-> m]),
                    found[1],
                    Update(accounts[found[1]], m.nonce, m.balance, m.code, m.storage,
                           m.reset_storage))

ApplyModify(accounts, aliases, values, updates, m, found) ==
  IF found = None
  THEN [accounts |-> accounts, res |-> Err("NotEnoughAccountKeys"), updates |-> updates]
  ELSE ApplyUpdated(accounts, aliases, values, Append(updates, [pos |-> found[1], m |-> m]),
                    found[1],
                    Update(accounts[found[1]], m.nonce, m.balance, m.code, m.storage,
                           m.reset_storage))

Apply(accounts, aliases, values, updates) ==
  IF values = <<>> THEN [accounts |-> accounts, res |-> Ok, updates |-> updates]
  ELSE IF Head(values).kind = "Delete" THEN Apply(accounts, aliases, Tail(values), updates)
  ELSE IF IsSolanaAddress(Head(values).address)
  THEN Apply(accounts, aliases, Tail(values), updates)
  ELSE ApplyModify(accounts, aliases, values, updates, Head(values),
                   FindAccount(aliases, Head(values).address))

\* ------------------------------------------- SolanaBackend: the read side
\* keccak256_digest, as the digest of these bytes.
Keccak256(bytes) == <<"keccak256", bytes>>

\* H256::default and U256_to_H256 (32 bytes, big-endian)
H256Default == Fill(0, 32)

U256ToH256(v) == Fill(0, 31) \o <<v>>

\* SolidityAccount::code: the code_size bytes after the header, or none.
AccountCode(acc) ==
  IF acc.account_data.code_size > 0 THEN SubSeq(acc.code, 1, acc.account_data.code_size)
  ELSE <<>>

\* SolidityAccount::storage(|storage| storage.find(index))
AccountStorageFind(acc, index) ==
  IF acc.account_data.code_size > 0 THEN <<"Ok", HamtFind(acc.storage, index)>>
  ELSE Err("UninitializedAccount")

\* Backend::origin
BackendOrigin == Fill(0, 20)

BackendExistsAlways(aliases, address) == TRUE

\* Backend::exists
BackendExists(aliases, address) == FindAccount(aliases, address) # None

BasicOf(accounts, found) ==
  IF found = None THEN [balance |-> 0, nonce |-> 0]
  ELSE [balance |-> accounts[found[1]].lamports,
        nonce |-> accounts[found[1]].account_data.trx_count]

\* Backend::basic
BackendBasic(accounts, aliases, address) == BasicOf(accounts, FindAccount(aliases, address))

CodeOf(accounts, found) == IF found = None THEN <<>> ELSE AccountCode(accounts[found[1]])

\* Backend::code, Backend::code_size, Backend::code_hash
BackendCode(accounts, aliases, address) == CodeOf(accounts, FindAccount(aliases, address))

BackendCodeSize(accounts, aliases, address) == Len(BackendCode(accounts, aliases, address))

BackendCodeHash(accounts, aliases, address) == Keccak256(BackendCode(accounts, aliases, address))

\* unwrap_or_default of the view's answer, then the value or H256::default
StorageValue(r) ==
  IF r[1] # "Ok" THEN H256Default
  ELSE IF r[2] = None THEN H256Default ELSE U256ToH256(r[2][1])

StorageOf(accounts, found, index) ==
  IF found = None THEN H256Default
  ELSE StorageValue(AccountStorageFind(accounts[found[1]], index))

\* Backend::storage
BackendStorage(accounts, aliases, address, index) ==
  StorageOf(accounts, FindAccount(aliases, address), index)

\* Everything the read side answers about an address and a storage key.
BackendRead(accounts, aliases, address, index) ==
  [origin |-> BackendOrigin,
   exists |-> BackendExists(aliases, address),
   basic |-> BackendBasic(accounts, aliases, address),
   code_size |-> BackendCodeSize(accounts, aliases, address),
   code |-> BackendCode(accounts, aliases, address),
   code_hash |-> BackendCodeHash(accounts, aliases, address),
   storage |-> BackendStorage(accounts, aliases, address, index)]

\* ------------------------------------------------ EmulatorAccountStorage
\* EmulatorAccountStorage::new: nothing cached, nothing new.
EmulatorNew(contract_id, caller_id) ==
  [accounts |-> [a \in Addrs |-> None], new_accounts |-> <<>>,
   contract_id |-> contract_id, caller_id |-> caller_id]

\* The host key an E-addr stands for: the program address of the contract,
\* the seeded address of any other.
SolanaAddress(em, address) ==
  IF address = em.contract_id THEN <<"find_program_address", address>>
  ELSE <<"create_with_seed", address>>

\* The account the remote has behind an E-addr; only the contract's names a
\* code account.
RemoteAccount(em, address) ==
  [lamports |-> 1,
   data |-> [ether |-> address,
             code_account |-> IF address = em.contract_id THEN <<"code", address>>
                              ELSE Fill(0, 32)]]

\* SolidityAccount::get_code_account(&acc.data)
GetCodeAccount(account) == account.data.code_account

\* The remote's code account behind a code key.
RemoteCode(code_key) == [lamports |-> 1, data |-> <<1>>]

KeySolidity(address) == [kind |-> "Solidity", address |-> address]

KeySolana(key) == [kind |-> "Solana", key |-> key]

\* SolanaAccount::new
SolanaAccount(account, key, code_account) ==
  [account |-> account, code_account |-> code_account, key |-> key, writable |-> FALSE]

\* create_acc_if_not_exists, the account was found: get its code account.
Found(em, address, acc, code_ok) ==
  IF GetCodeAccount(acc) = Fill(0, 32)
  THEN [em |-> [em EXCEPT !.accounts[address]
                            = Some(SolanaAccount(acc, SolanaAddress(em, address), None))],
        res |-> TRUE]
  ELSE IF code_ok
  THEN [em |-> [em EXCEPT !.accounts[address]
                            = Some(SolanaAccount(acc, SolanaAddress(em, address),
                                                 Some(RemoteCode(GetCodeAccount(acc)))))],
        res |-> TRUE]
  ELSE [em |-> [em EXCEPT !.accounts[address]
                            = Some(SolanaAccount(acc, SolanaAddress(em, address), None)),
                          !.new_accounts = Append(@, KeySolana(GetCodeAccount(acc)))],
        res |-> TRUE]

\* create_acc_if_not_exists; rpc_ok and code_ok are what the two requests
\* to the remote come to.
CreateAccIfNotExists(em, address, rpc_ok, code_ok) ==
  IF em.accounts[address] # None THEN [em |-> em, res |-> TRUE]
  ELSE IF rpc_ok THEN Found(em, address, RemoteAccount(em, address), code_ok)
  ELSE [em |-> [em EXCEPT !.new_accounts = Append(@, KeySolidity(address))], res |-> FALSE]

EmulatorModifyNothing(em, address) == em

\* the Modify arm of apply
EmulatorModify(em, address) ==
  IF em.accounts[address] # None
  THEN [em EXCEPT !.accounts[address] = Some([@[1] EXCEPT !.writable = TRUE])]
  ELSE em

\* EmulatorAccountStorage::apply
RECURSIVE EmulatorApply(_, _)
EmulatorApply(em, values) ==
  IF values = <<>> THEN em
  ELSE IF Head(values).kind = "Modify"
  THEN EmulatorApply(EmulatorModify(em, Head(values).address), Tail(values))
  ELSE EmulatorApply(em, Tail(values))

\* AccountJSON
AccountJSON(address, key, writable, new) ==
  [address |-> address, key |-> key, writable |-> writable, new |-> new]

\* "0x" + hex::encode(address)
Hex(address) == <<"0x", H160(address)>>

\* get_used_accounts: the entries of arr (a HashMap and two HashSets are
\* walked, so the order is not the program's to choose).
GetUsedAccounts(em) ==
  {AccountJSON(Hex(a), SolanaAddress(em, a), em.accounts[a][1].writable, FALSE) :
     a \in {x \in Addrs : em.accounts[x] # None}}
  \cup {AccountJSON("", GetCodeAccount(em.accounts[a][1].account),
                    em.accounts[a][1].writable, FALSE) :
          a \in {x \in Addrs : em.accounts[x] # None /\ em.accounts[x][1].code_account # None}}
  \cup {AccountJSON(Hex(em.new_accounts[k].address),
                    SolanaAddress(em, em.new_accounts[k].address), FALSE, TRUE) :
          k \in {j \in DOMAIN em.new_accounts : em.new_accounts[j].kind = "Solidity"}}
  \cup {AccountJSON("", em.new_accounts[k].key, FALSE, TRUE) :
          k \in {j \in DOMAIN em.new_accounts : em.new_accounts[j].kind = "Solana"}}

\* AccountStorage::origin of the emulator
EmulatorOrigin(em) == em.contract_id

\* ------------------------------------------------------------- entrypoint
\* SolidityAccount::new over every account of the instruction: the view's
\* AccountData is what the blob's header unpacks to.
Reload(accounts) == [i \in DOMAIN accounts |-> [accounts[i] EXCEPT !.account_data = accounts[i].header]]

\* ExitReason::is_succeed
IsSucceed(exit_reason) == exit_reason[1] = "Succeed"

\* do_call's match on the exit reason: the arm that applies.
CallAppliesAlways(exit_reason) == TRUE

CallApplies(exit_reason) == exit_reason[1] = "Succeed"

\* What an instruction handler comes to: the accounts as it wrote them, its
\* result, whether it invoked apply, the update calls apply made, and the
\* data of the instruction it handed to invoke().
Handled(accounts, res, applied, updates, delivered) ==
  [accounts |-> accounts, res |-> res, applied |-> applied, updates |-> updates,
   delivered |-> delivered]

\* do_call after the match: the exit check, then OnReturn through invoke.
CallReturn(accounts, updates, out, invoke_ok) ==
  IF ~IsSucceed(out.exit_reason)
  THEN Handled(accounts, Err("InvalidInstructionData"), updates # None, updates, None)
  ELSE Handled(accounts, IF invoke_ok THEN Ok ELSE Err("Custom"), updates # None, updates,
               Some(<<5>> \o out.result))

CallApplied(r, out, invoke_ok) ==
  IF r.res # Ok THEN Handled(r.accounts, r.res, TRUE, Some(r.updates), None)
  ELSE CallReturn(r.accounts, Some(r.updates), out, invoke_ok)

\* do_call, given what the executor's transact_call came to.
DoCall(accounts, aliases, out, invoke_ok) ==
  IF CallApplies(out.exit_reason)
  THEN CallApplied(Apply(Reload(accounts), aliases, out.applies, <<>>), out, invoke_ok)
  ELSE CallReturn(Reload(accounts), None, out, invoke_ok)

FinalizeApplied(r) == Handled(r.accounts, r.res, TRUE, Some(r.updates), None)

\* do_finalize, given what the executor's transact_create2 came to.
DoFinalize(accounts, aliases, out) ==
  IF IsSucceed(out.exit_reason)
  THEN FinalizeApplied(Apply(Reload(accounts), aliases, out.applies, <<>>))
  ELSE Handled(Reload(accounts), Err("InvalidInstructionData"), FALSE, None, None)

\* data[offset+SIZE .. offset+SIZE+len] = bytes, on the bytes after the header
Overwrite(region, offset, bytes) ==
  [i \in DOMAIN region |->
     IF i > offset /\ i <= offset + Len(bytes) THEN bytes[i - offset] ELSE region[i]]

\* do_write: the bytes go into the blob after the header; of that region the
\* view holds the code_size bytes of code, and has room for CodeCapacity.
DoWrite(acc, offset, bytes) ==
  IF CodeCapacity < offset + Len(bytes)
  THEN [acc |-> acc, res |-> Err("AccountDataTooSmall")]
  ELSE [acc |-> [acc EXCEPT !.code = Overwrite(@, offset, bytes)], res |-> Ok]

\* process_instruction, the Write arm: the owner check, then do_write.
WriteInstruction(acc, owned, offset, bytes) ==
  IF ~owned THEN [acc |-> acc, res |-> Err("InvalidArgument")]
  ELSE DoWrite(acc, offset, bytes)

\* ------------------------------------------------------- the host's inputs
\* The arguments of the update calls made on a view directly.
UpdateArg(nonce, lamports, code, storage_items, reset_storage) ==
  [nonce |-> nonce, lamports |-> lamports, code |-> code, items |-> storage_items,
   reset |-> reset_storage]

UpdateArgs ==
  {UpdateArg(n, 1, None, <<>>, FALSE) : n \in 0..MaxNonce}
  \cup {UpdateArg(1, 0, c, <<>>, FALSE) :
          c \in {Some(<<>>), Some(<<1>>), Some(Fill(1, CodeCapacity + 1))}}
  \cup {UpdateArg(1, 0, None, <<<<0, 1>>>>, FALSE), UpdateArg(1, 0, None, <<>>, TRUE),
        UpdateArg(1, 0, Some(<<1>>), <<<<0, 1>>>>, TRUE),
        UpdateArg(1, 0, Some(<<>>), <<<<0, 1>>>>, FALSE)}

\* The effect lists an executor hands over.
ApplyLists ==
  {<<>>, <<Delete(Addr.a1)>>}
  \cup {<<Modify(Addr.a1, n, 1, None, <<>>, FALSE)>> : n \in {0, MaxNonce}}
  \cup {<<Modify(a, 1, 0, None, <<>>, FALSE)>> : a \in {Addr.none, Addr.like, Addr.sol}}
  \cup {<<Modify(Addr.a2, 1, 0, Some(<<1>>), <<<<1, 1>>>>, TRUE)>>,
        <<Modify(Addr.none, 1, 0, None, <<>>, FALSE), Modify(Addr.a1, 1, 0, None, <<>>, FALSE)>>,
        <<Modify(Addr.a1, 1, 0, None, <<>>, FALSE), Modify(Addr.none, 1, 0, None, <<>>, FALSE)>>,
        <<Modify(Addr.a1, MaxNonce, 0, None, <<>>, FALSE),
          Modify(Addr.n1, 1, 0, None, <<>>, FALSE)>>}

\* What the executor's transact_call / transact_create2 came to.
Outcome(exit_reason, result, applies) ==
  [exit_reason |-> exit_reason, result |-> result, applies |-> applies]

Outcomes ==
  {Outcome(<<"Succeed", "Returned">>, <<1>>, a) : a \in ApplyLists}
  \cup {Outcome(e, r, a) :
          e \in {<<"Revert", "Reverted">>, <<"Error", "OutOfGas">>, <<"Fatal", "NotSupported">>},
          r \in {<<>>, <<1>>},
          a \in {<<>>, <<Modify(Addr.a1, MaxNonce, 1, None, <<>>, FALSE)>>}}

\* ------------------------------------------------------------------- state

VARIABLES
  runtime,   \* Machine.runtime: the frame stack
  state,     \* Machine.executor.state: the sub-state stack
  backend,   \* the backend the state reads through: code and nonce per E-addr
  storage,   \* the buffer of the last save_into
  drv,       \* the driver: idle, inside execute(), inside execute_n_steps(n), or panicked
  last,      \* the last Machine operation: its kind, result, issued calls, and the machine before it
  hist,      \* history: what the run has seen so far
  accounts,  \* the host's accounts of the program, by position: the SolidityAccount views
  aliases,   \* SolanaBackend.aliases: (E-addr, position) pairs, sorted by E-addr
  host,      \* the last host operation, and which views have been given code
  emulator   \* EmulatorAccountStorage: the cached accounts and the keys not found

vars ==
  <<runtime, state, backend, storage, drv, last, hist, accounts, aliases, host, emulator>>

\* The host at rest.
NoHost(acs) ==
  [op |-> "none", pre |-> acs, pos |-> 0, arg |-> None, res |-> Ok,
   written |-> acs, applied |-> FALSE, updates |-> None, delivered |-> None,
   invoked |-> <<>>, cpi_ok |-> TRUE, panic |-> FALSE,
   created |-> {},
   codeSet |-> [i \in DOMAIN acs |-> acs[i].header.code_size # 0],
   codeSetPre |-> [i \in DOMAIN acs |-> acs[i].header.code_size # 0]]

BaseAliases == << <<Addr.a1, 1>>, <<Addr.a2, 2>> >>

Idle == [pc |-> "idle", op |-> "none", n |-> 0, i |-> 0, calls |-> 0, ret |-> None]

\* A Machine just constructed, before any operation.
InitMachine ==
  /\ runtime = MachineNew.runtime
  /\ state = MachineNew.state
  /\ storage = <<>>
  /\ drv = Idle
  /\ last = [kind |-> "new", by |-> "none", clean |-> TRUE, res |-> <<"Ok">>, ev |-> <<>>,
             runtime |-> <<>>, state |-> <<>>]
  /\ hist = [begun |-> FALSE, errSeen |-> FALSE, firstErr |-> None, snaps |-> <<>>,
             resumed |-> FALSE, resumedNested |-> FALSE]

Init ==
  /\ InitMachine
  /\ backend \in {[code |-> [a \in Addrs |-> IF a = Addr.a1 THEN c1
                                               ELSE IF a = Addr.a2 THEN c2 ELSE <<>>],
                   nonce |-> [a \in Addrs |-> 0]] : c1 \in Programs, c2 \in Programs}
  /\ accounts = <<AccountView(0, <<1>>, 0), AccountView(0, <<>>, 0)>>
  /\ aliases = BaseAliases
  /\ host = NoHost(accounts)
  /\ emulator = EmulatorNew(Addr.a1, Addr.a2)

\* The history after a Machine operation took the machine to (rts, st) with result res.
HistAfter(rts, st, res) ==
  [hist EXCEPT
     !.errSeen = @ \/ res # <<"Ok">>,
     !.firstErr = IF ~hist.errSeen /\ res # <<"Ok">>
                  THEN Some([res |-> res, ret |-> ReturnValue(rts),
                             runtime |-> rts, state |-> st])
                  ELSE @,
     !.snaps = IF Len(rts) > Len(runtime)
               THEN Append(@, [pre |-> state, at |-> SubSeq(st, 1, Len(st) - 1)])
               ELSE IF res = <<"Ok">> THEN SubSeq(@, 1, Len(rts)) ELSE @]

\* One call of Machine::step, made by `by`.
DoStep(r, by) ==
  /\ runtime' = r.runtime
  /\ state' = r.state
  /\ last' = [kind |-> "step", by |-> by, clean |-> ~hist.errSeen, res |-> r.res, ev |-> r.ev,
              runtime |-> runtime, state |-> state]
  /\ hist' = HistAfter(r.runtime, r.state, r.res)
  /\ UNCHANGED <<backend, storage, accounts, aliases, host, emulator>>

Panicked == [Idle EXCEPT !.pc = "panicked"]

\* machine.call_begin(caller, code_address, input, gas_limit), once per machine
CallBegin ==
  /\ drv.pc = "idle"
  /\ ~hist.begun
  /\ \E m \in {CallBeginOp(runtime, state, backend, Addr.user, Addr.a1, <<>>)} :
        /\ runtime' = m.runtime
        /\ state' = m.state
        /\ last' = [kind |-> "call_begin", by |-> "none", clean |-> ~hist.errSeen,
                    res |-> <<"Ok">>,
                    ev |-> <<"inc_nonce", "enter", "touch", "push">>,
                    runtime |-> runtime, state |-> state]
        /\ hist' = [HistAfter(m.runtime, m.state, <<"Ok">>) EXCEPT !.begun = TRUE]
  /\ UNCHANGED <<backend, storage, drv, accounts, aliases, host, emulator>>

\* machine.step(), called directly
StepCall ==
  /\ drv.pc = "idle"
  /\ \E r \in {MachineStep(runtime, state, backend)} :
        /\ DoStep(r, "step")
        /\ drv' = IF r.res = <<"Panic">> THEN Panicked
                  ELSE [Idle EXCEPT !.op = "step", !.ret = Some(r.res)]

\* machine.execute() is entered
ExecuteCall ==
  /\ drv.pc = "idle"
  /\ drv' = [Idle EXCEPT !.pc = "execute", !.op = "execute"]
  /\ last' = [last EXCEPT !.kind = "enter", !.by = "execute"]
  /\ UNCHANGED <<runtime, state, backend, storage, hist, accounts, aliases, host, emulator>>

\* one turn of execute()'s loop
ExecuteLoop ==
  /\ drv.pc = "execute"
  /\ \E r \in {MachineStep(runtime, state, backend)} :
        /\ DoStep(r, "execute")
        /\ drv' = IF r.res = <<"Panic">> THEN Panicked
                  ELSE IF r.res[1] = "Err"
                  THEN [Idle EXCEPT !.op = "execute", !.ret = Some(r.res[2])]
                  ELSE drv

\* machine.execute_n_steps(n) is entered
ExecuteNSteps ==
  /\ drv.pc = "idle"
  /\ \E n \in 0..MaxN : drv' = [Idle EXCEPT !.pc = "exec_n", !.op = "execute_n_steps", !.n = n]
  /\ last' = [last EXCEPT !.kind = "enter", !.by = "execute_n_steps"]
  /\ UNCHANGED <<runtime, state, backend, storage, hist, accounts, aliases, host, emulator>>

\* one turn of execute_n_steps's loop: self.step()?
ExecuteNLoop ==
  /\ drv.pc = "exec_n"
  /\ ExecNContinue(drv.i, drv.n)
  /\ \E r \in {MachineStep(runtime, state, backend)} :
        /\ DoStep(r, "execute_n_steps")
        /\ drv' = IF r.res = <<"Panic">> THEN Panicked
                  ELSE IF r.res[1] = "Err"
                  THEN [drv EXCEPT !.pc = "idle", !.ret = Some(r.res), !.calls = @ + 1]
                  ELSE [drv EXCEPT !.i = @ + 1, !.calls = @ + 1]

\* execute_n_steps's loop is over: Ok(())
ExecuteNReturn ==
  /\ drv.pc = "exec_n"
  /\ ~ExecNContinue(drv.i, drv.n)
  /\ drv' = [drv EXCEPT !.pc = "idle", !.ret = Some(<<"Ok">>)]
  /\ UNCHANGED <<runtime, state, backend, storage, last, hist, accounts, aliases, host, emulator>>

\* machine.save_into(buf), then Machine::restore(buf, backend) in place of machine
SaveRestore ==
  /\ drv.pc = "idle"
  /\ \E buf \in {SaveInto(runtime, state)} : \E m \in {Restore(buf)} :
        /\ storage' = buf
        /\ runtime' = m.runtime
        /\ state' = m.state
        /\ last' = [kind |-> "restore", by |-> "none", clean |-> ~hist.errSeen,
                    res |-> <<"Ok">>, ev |-> <<>>,
                    runtime |-> runtime, state |-> state]
        /\ hist' = [hist EXCEPT !.resumed = TRUE,
                                !.resumedNested = @ \/ (Len(runtime) >= 2 /\ ~hist.errSeen)]
  /\ drv' = Idle
  /\ UNCHANGED <<backend, accounts, aliases, host, emulator>>

Next ==
  \/ CallBegin
  \/ StepCall
  \/ ExecuteCall
  \/ ExecuteLoop
  \/ ExecuteNSteps
  \/ ExecuteNLoop
  \/ ExecuteNReturn
  \/ SaveRestore

Spec == Init /\ [][Next]_vars

\* ------------------------------------------------------ the host's side
InitHost ==
  /\ InitMachine
  /\ backend = [code |-> [a \in Addrs |-> <<>>], nonce |-> [a \in Addrs |-> 0]]
  /\ accounts \in {<<AccountView(1, c, 0), AccountView(0, <<>>, 0)>> : c \in {<<>>, <<1>>}}
  /\ aliases = Append(BaseAliases, <<Addr.n1, 1>>)
  /\ host = NoHost(accounts)
  /\ emulator = EmulatorNew(Addr.a1, Addr.a2)

\* The record of a host operation.
HostAfter(op, pos, arg, r, cpi, codeSet) ==
  [op |-> op, pre |-> accounts, pos |-> pos, arg |-> arg, res |-> r.res,
   written |-> r.accounts, applied |-> r.applied, updates |-> r.updates,
   delivered |-> r.delivered, invoked |-> cpi.invoked, cpi_ok |-> cpi.cpi_ok,
   panic |-> cpi.panic, created |-> host.created, codeSet |-> codeSet,
   codeSetPre |-> host.codeSet]

NoCpi == [invoked |-> <<>>, cpi_ok |-> TRUE, panic |-> FALSE]

\* Which views have been given code, after apply made these update calls.
CodeSetAfter(r) ==
  [i \in DOMAIN accounts |->
     host.codeSet[i] \/ (r.res = Ok /\ r.updates # None
                          /\ \E k \in 1..Len(r.updates[1]) :
                                r.updates[1][k].pos = i /\ r.updates[1][k].m.code # None)]

\* What the host keeps of an instruction: nothing unless it returned Ok.
Kept(r) == IF r.res = Ok THEN r.accounts ELSE accounts

\* account.update(address, nonce, lamports, code, storage, reset_storage) on the
\* contract's view
UpdateCall ==
  /\ \E pos \in {1}, u \in UpdateArgs :
       \E r \in {Update(accounts[pos], u.nonce, u.lamports, u.code, u.items, u.reset)} :
          /\ accounts' = IF r.res = <<"Panic">> THEN accounts
                         ELSE [accounts EXCEPT ![pos] = r.acc]
          /\ host' = HostAfter("update", pos, u,
                               Handled([accounts EXCEPT ![pos] = r.acc], r.res, FALSE, None, None),
                               NoCpi,
                               [host.codeSet EXCEPT ![pos] = @ \/ (u.code # None /\ r.res = Ok)])
  /\ UNCHANGED <<runtime, state, backend, storage, drv, last, hist, aliases, emulator>>

\* backend.apply(values, logs, false)
ApplyCall ==
  /\ \E values \in ApplyLists :
       \E r \in {Apply(accounts, aliases, values, <<>>)} :
       \E h \in {Handled(r.accounts, r.res, TRUE, Some(r.updates), None)} :
          /\ accounts' = IF r.res = <<"Panic">> THEN accounts ELSE r.accounts
          /\ host' = HostAfter("apply", 0, [values |-> values], h, NoCpi, CodeSetAfter(h))
  /\ UNCHANGED <<runtime, state, backend, storage, drv, last, hist, aliases, emulator>>

\* backend.call_inner(code_address, ..., input, ...); the host program the
\* instruction goes to succeeds or fails.
CallInnerCall ==
  /\ \E code_address \in {Addr.a1, Addr.sol, Addr.like}, k \in DOMAIN CpiRequests :
       \E c \in {CallInnerOn(aliases, code_address, CpiPayloads[k])} :
       \E cpi_ok \in IF c.invoked = <<>> THEN {TRUE} ELSE BOOLEAN :
          host' = HostAfter("call_inner", 0,
                            [code_address |-> code_address, request |-> CpiRequests[k]],
                            Handled(accounts, c.res, FALSE, None, None),
                            [invoked |-> c.invoked, cpi_ok |-> cpi_ok, panic |-> c.panic],
                            host.codeSet)
  /\ UNCHANGED <<runtime, state, backend, storage, drv, last, hist, accounts, aliases, emulator>>

\* the Call instruction: do_call around the executor's transact_call
CallInstruction ==
  /\ \E out \in Outcomes, invoke_ok \in BOOLEAN :
       \E r \in {DoCall(accounts, aliases, out, invoke_ok)} :
          /\ accounts' = Kept(r)
          /\ host' = HostAfter("call", 0, [out |-> out, invoke_ok |-> invoke_ok], r, NoCpi,
                               CodeSetAfter(r))
  /\ UNCHANGED <<runtime, state, backend, storage, drv, last, hist, aliases, emulator>>

\* the Finalize instruction: do_finalize around the executor's transact_create2
FinalizeInstruction ==
  /\ \E out \in Outcomes :
       \E r \in {DoFinalize(accounts, aliases, out)} :
          /\ accounts' = Kept(r)
          /\ host' = HostAfter("finalize", 0, [out |-> out], r, NoCpi, CodeSetAfter(r))
  /\ UNCHANGED <<runtime, state, backend, storage, drv, last, hist, aliases, emulator>>

\* the Backend's getters, asked about an address and a storage key
ReadCall ==
  /\ \E address \in {Addr.a1, Addr.a2, Addr.none}, index \in Keys :
       host' = HostAfter("read", 0, [address |-> address, index |-> index],
                         Handled(accounts, BackendRead(accounts, aliases, address, index),
                                 FALSE, None, None),
                         NoCpi, host.codeSet)
  /\ UNCHANGED <<runtime, state, backend, storage, drv, last, hist, accounts, aliases, emulator>>

\* acc.storage(|storage| storage.find(index)) on a view
StorageCall ==
  /\ \E pos \in DOMAIN accounts, index \in Keys :
       host' = HostAfter("storage", pos, [index |-> index],
                         Handled(accounts, AccountStorageFind(accounts[pos], index),
                                 FALSE, None, None),
                         NoCpi, host.codeSet)
  /\ UNCHANGED <<runtime, state, backend, storage, drv, last, hist, accounts, aliases,
                 emulator>>

\* the Write instruction on a view's host account
WriteCall ==
  /\ \E pos \in DOMAIN accounts, owned \in BOOLEAN, offset \in {0},
        bytes \in {<<7>>, Fill(7, CodeCapacity + 1)} :
       \E r \in {WriteInstruction(accounts[pos], owned, offset, bytes)} :
          /\ accounts' = [accounts EXCEPT ![pos] = r.acc]
          /\ host' = HostAfter("write", pos,
                               [owned |-> owned, offset |-> offset, bytes |-> bytes],
                               Handled([accounts EXCEPT ![pos] = r.acc], r.res, FALSE, None, None),
                               NoCpi, host.codeSet)
  /\ UNCHANGED <<runtime, state, backend, storage, drv, last, hist, aliases, emulator>>

NextHost ==
  \/ UpdateCall
  \/ WriteCall
  \/ ApplyCall
  \/ CallInnerCall
  \/ CallInstruction
  \/ FinalizeInstruction
  \/ ReadCall
  \/ StorageCall

SpecHost == InitHost /\ [][NextHost]_vars

\* --------------------------------------------------- the Handler's side
\* The accounts the Handler operations are tried on.
HandlerAddrs == {Addr.a1, Addr.a2, Addr.none}

\* The record of a Handler operation: the operation, its arguments and
\* result, the sub-states before it, and the accounts whose mark_delete has
\* been committed into an outer sub-state.
HandlerOp(op, address, target, flag, res, committed) ==
  [op |-> op, address |-> address, target |-> target, flag |-> flag, res |-> res,
   pre |-> state, committed |-> committed]

InitHandler ==
  /\ InitMachine
  /\ backend \in {[code |-> [a \in Addrs |-> IF a = Addr.a1 THEN c ELSE <<>>],
                   nonce |-> [a \in Addrs |-> IF a = Addr.a1 THEN Len(c) ELSE 0],
                   balance |-> [a \in Addrs |-> IF a = Addr.a1 THEN b1
                                                ELSE IF a = Addr.a2 THEN b2 ELSE 0],
                   exists |-> [a \in Addrs |-> a \in {Addr.a1, Addr.a2}]] :
                    c \in {<<>>, <<1>>}, b1 \in 0..MaxBalance, b2 \in {0, 1}}
  /\ accounts = <<>>
  /\ aliases = <<>>
  /\ host = [op |-> "none", address |-> 0, target |-> 0, flag |-> FALSE, res |-> <<"Ok">>,
             pre |-> state, committed |-> {}]
  /\ emulator = EmulatorNew(Addr.a1, Addr.a2)

\* state.enter for a frame
HandlerEnter ==
  /\ Len(state) <= CallStackLimit
  /\ state' = Enter(state)
  /\ host' = HandlerOp("enter", 0, 0, FALSE, <<"Ok">>, host.committed)
  /\ UNCHANGED <<runtime, backend, storage, drv, last, hist, accounts, aliases, emulator>>

\* state.exit_commit of the frame's sub-state
HandlerCommit ==
  /\ Len(state) >= 2
  /\ state' = ExitCommit(state).st
  /\ host' = HandlerOp("commit", 0, 0, FALSE, <<"Ok">>,
                       host.committed \cup {a \in HandlerAddrs :
                                              \E i \in 1..Len(state[Len(state)].eff) :
                                                 /\ state[Len(state)].eff[i].k = "deleted"
                                                 /\ state[Len(state)].eff[i].a = a})
  /\ UNCHANGED <<runtime, backend, storage, drv, last, hist, accounts, aliases, emulator>>

\* state.exit_revert of the frame's sub-state
HandlerRevert ==
  /\ Len(state) >= 2
  /\ state' = ExitRevert(state).st
  /\ host' = HandlerOp("revert", 0, 0, FALSE, <<"Ok">>,
                       {a \in host.committed : Deleted(ExitRevert(state).st, a)})
  /\ UNCHANGED <<runtime, backend, storage, drv, last, hist, accounts, aliases, emulator>>

\* handler.mark_delete(address, target): SELFDESTRUCT
MarkDeleteCall ==
  /\ Len(AllEffects(state)) < MaxStaged
  /\ \E address \in HandlerAddrs, target \in HandlerAddrs :
       \E r \in {MarkDelete(state, backend, address, target)} :
          /\ state' = r.st
          /\ host' = HandlerOp("mark_delete", address, target, FALSE, r.res, host.committed)
  /\ UNCHANGED <<runtime, backend, storage, drv, last, hist, accounts, aliases, emulator>>

\* handler.exists(address) under a config
ExistsCall ==
  /\ \E address \in HandlerAddrs, empty_considered_exists \in BOOLEAN :
       host' = HandlerOp("exists", address, 0, empty_considered_exists,
                         HandlerExists(state, backend, empty_considered_exists, address),
                         host.committed)
  /\ UNCHANGED <<runtime, state, backend, storage, drv, last, hist, accounts, aliases, emulator>>

NextHandler ==
  \/ HandlerEnter
  \/ HandlerCommit
  \/ HandlerRevert
  \/ MarkDeleteCall
  \/ ExistsCall

SpecHandler == InitHandler /\ [][NextHandler]_vars

\* ------------------------------------------------------- Backend::create
CreateSchemes == {Create2(Pubkey(1)), Create2(Pubkey(2)), Create2(Pubkey(3)), Legacy}

\* The position create registered an address at, 0 when it registered none.
Registered(old, new, address) ==
  IF new = old THEN [address |-> address, pos |-> 0]
  ELSE [address |-> address, pos |-> FindAccount(new, address)[1]]

\* backend.create(scheme, address) for an address that has no alias yet
CreateCall ==
  /\ \E scheme \in CreateSchemes, address \in {Addr.none, Addr.like} :
       /\ FindAccount(aliases, address) = None
       /\ \E t \in {BackendCreate(accounts, aliases, scheme, address)} :
            /\ aliases' = t
            /\ host' = [HostAfter("create", 0,
                                  [scheme |-> scheme, address |-> address, aliases |-> aliases],
                                  Handled(accounts, Ok, FALSE, None, None), NoCpi, host.codeSet)
                          EXCEPT !.created = @ \cup {Registered(aliases, t, address)}]
  /\ UNCHANGED <<runtime, state, backend, storage, drv, last, hist, accounts, emulator>>

NextCreate ==
  \/ CreateCall
  \/ ApplyCall
  \/ ReadCall
  \/ CallInnerCall

SpecCreate == InitHost /\ [][NextCreate]_vars

\* ------------------------------------------------- the emulator's side
\* The record of an emulator operation: the storage before it, what it
\* answered, and the keys the remote has failed to answer for so far.
EmulatorOp(op, arg, res, missed) ==
  [op |-> op, arg |-> arg, res |-> res, pre |-> emulator, missed |-> missed]

InitEmulator ==
  /\ InitMachine
  /\ backend = [code |-> [a \in Addrs |-> <<>>], nonce |-> [a \in Addrs |-> 0]]
  /\ accounts = <<>>
  /\ aliases = <<>>
  /\ emulator = EmulatorNew(Addr.a1, Addr.a2)
  /\ host = EmulatorOp("none", None, None, {})

\* What a lookup adds to the keys the remote did not answer for.
Missed(em, address, rpc_ok, code_ok) ==
  IF em.accounts[address] # None THEN {}
  ELSE IF ~rpc_ok THEN {KeySolidity(address)}
  ELSE IF GetCodeAccount(RemoteAccount(em, address)) # Fill(0, 32) /\ ~code_ok
  THEN {KeySolana(GetCodeAccount(RemoteAccount(em, address)))}
  ELSE {}

\* exists(address) (basic, code_hash, code_size, code and storage look the
\* address up the same way); the remote answers or fails each request
EmulatorExists ==
  /\ Len(emulator.new_accounts) < MaxNew
  /\ \E address \in {Addr.a1, Addr.a2, Addr.none}, rpc_ok \in BOOLEAN, code_ok \in BOOLEAN :
       \E r \in {CreateAccIfNotExists(emulator, address, rpc_ok, code_ok)} :
          /\ emulator' = r.em
          /\ host' = EmulatorOp("exists",
                                [address |-> address, rpc_ok |-> rpc_ok, code_ok |-> code_ok],
                                r.res,
                                host.missed \cup Missed(emulator, address, rpc_ok, code_ok))
  /\ UNCHANGED <<runtime, state, backend, storage, drv, last, hist, accounts, aliases>>

\* apply(values)
EmulatorApplyCall ==
  /\ \E values \in ApplyLists :
       /\ emulator' = EmulatorApply(emulator, values)
       /\ host' = EmulatorOp("apply", [values |-> values], None, host.missed)
  /\ UNCHANGED <<runtime, state, backend, storage, drv, last, hist, accounts, aliases>>

\* get_used_accounts(status, result)
EmulatorReport ==
  /\ host' = EmulatorOp("report", None, GetUsedAccounts(emulator), host.missed)
  /\ UNCHANGED <<runtime, state, backend, storage, drv, last, hist, accounts, aliases,
                 emulator>>

NextEmulator ==
  \/ EmulatorExists
  \/ EmulatorApplyCall
  \/ EmulatorReport

SpecEmulator == InitEmulator /\ [][NextEmulator]_vars

\* ----------------------------------------------------- the HAMT's side
\* The record of a storage operation, and the insert and remove calls made
\* so far, in order.
HamtOp(op, arg, res, log) == [op |-> op, arg |-> arg, res |-> res, log |-> log]

Inserted(key, value) == [op |-> "insert", key |-> key, value |-> value]

Removed(key) == [op |-> "remove", key |-> key]

RECURSIVE InsertedAll(_)
InsertedAll(items) ==
  IF items = <<>> THEN <<>>
  ELSE <<Inserted(Head(items)[1], Head(items)[2])>> \o InsertedAll(Tail(items))

\* The storage items an update carries.
StorageItems == {<<>>, <<<<0, 0>>>>, <<<<1, 1>>>>, <<<<0, 1>>, <<0, 0>>>>, <<<<0, 1>>, <<1, 0>>>>}

\* A contract account with code and an empty storage.
InitHamt ==
  /\ InitMachine
  /\ backend = [code |-> [a \in Addrs |-> <<>>], nonce |-> [a \in Addrs |-> 0]]
  /\ accounts = <<AccountView(1, <<1>>, 0)>>
  /\ aliases = << <<Addr.a1, 1>> >>
  /\ emulator = EmulatorNew(Addr.a1, Addr.a2)
  /\ host = HamtOp("none", None, None, <<>>)

\* storage.insert(key, value)
HamtInsertCall ==
  /\ Len(host.log) < MaxHamtOps
  /\ \E key \in Keys, value \in {0, 1} :
       /\ accounts' = [accounts EXCEPT ![1].storage = HamtInsert(@, key, value)]
       /\ host' = HamtOp("insert", [key |-> key, value |-> value], Ok,
                         Append(host.log, Inserted(key, value)))
  /\ UNCHANGED <<runtime, state, backend, storage, drv, last, hist, aliases, emulator>>

\* storage.remove(key)
HamtRemoveCall ==
  /\ Len(host.log) < MaxHamtOps
  /\ \E key \in Keys :
       \E r \in {HamtRemove(accounts[1].storage, key)} :
          /\ accounts' = [accounts EXCEPT ![1].storage = r.storage]
          /\ host' = HamtOp("remove", [key |-> key], r.res, Append(host.log, Removed(key)))
  /\ UNCHANGED <<runtime, state, backend, storage, drv, last, hist, aliases, emulator>>

\* storage.find(key)
HamtFindCall ==
  /\ \E key \in Keys :
       host' = HamtOp("find", [key |-> key], HamtFind(accounts[1].storage, key), host.log)
  /\ UNCHANGED <<runtime, state, backend, storage, drv, last, hist, accounts, aliases,
                 emulator>>

\* account.update(.., storage_items, reset_storage) on the contract's view
HamtUpdateCall ==
  /\ \E items \in StorageItems, reset \in BOOLEAN :
       /\ Len(IF reset THEN <<>> ELSE host.log) + Len(items) <= MaxHamtOps
       /\ \E r \in {Update(accounts[1], 1, 0, None, items, reset)} :
            /\ accounts' = [accounts EXCEPT ![1] = r.acc]
            /\ host' = HamtOp("update", [items |-> items, reset |-> reset], r.res,
                              (IF reset THEN <<>> ELSE host.log) \o InsertedAll(items))
  /\ UNCHANGED <<runtime, state, backend, storage, drv, last, hist, aliases, emulator>>

\* backend.storage(address, index)
HamtStorageCall ==
  /\ \E index \in Keys :
       host' = HamtOp("storage", [index |-> index],
                      BackendStorage(accounts, aliases, Addr.a1, index), host.log)
  /\ UNCHANGED <<runtime, state, backend, storage, drv, last, hist, accounts, aliases,
                 emulator>>

NextHamt ==
  \/ HamtInsertCall
  \/ HamtRemoveCall
  \/ HamtFindCall
  \/ HamtUpdateCall
  \/ HamtStorageCall

SpecHamt == InitHamt /\ [][NextHamt]_vars

\* ------------------------------------------------- EvmInstruction::unpack
\* u32::from_le_bytes and u64::from_le_bytes
RECURSIVE FromLeBytes(_)
FromLeBytes(b) == IF b = <<>> THEN 0 ELSE b[1] + 256 * FromLeBytes(Tail(b))

\* slice::split_at panics when mid is past the end.
SplitAtPanics(s, mid) == mid > Len(s)

Left(s, mid) == SubSeq(s, 1, mid)

Right(s, mid) == SubSeq(s, mid + 1, Len(s))

Aborted == <<"Panic">>

Decoded(ins) == <<"Ok", ins>>

\* tag 0: 3 bytes of padding, offset (4), length (8), then length bytes
UnpackWrite(rest) ==
  IF SplitAtPanics(rest, 3) THEN Aborted
  ELSE IF SplitAtPanics(Right(rest, 3), 4) THEN Aborted
  ELSE IF SplitAtPanics(Right(rest, 7), 8) THEN Aborted
  ELSE IF SplitAtPanics(Right(rest, 15), FromLeBytes(SubSeq(rest, 8, 15))) THEN Aborted
  ELSE Decoded([tag |-> "Write", offset |-> FromLeBytes(SubSeq(rest, 4, 7)),
                bytes |-> Left(Right(rest, 15), FromLeBytes(SubSeq(rest, 8, 15)))])

\* tag 1: 3 bytes of padding
UnpackFinalize(rest) ==
  IF SplitAtPanics(rest, 3) THEN Aborted ELSE Decoded([tag |-> "Finalize"])

\* tag 2: padding (3), lamports (8), space (8), ether (20), nonce (1)
UnpackCreateAccount(rest) ==
  IF SplitAtPanics(rest, 3) THEN Aborted
  ELSE IF SplitAtPanics(Right(rest, 3), 8) THEN Aborted
  ELSE IF SplitAtPanics(Right(rest, 11), 8) THEN Aborted
  ELSE IF SplitAtPanics(Right(rest, 19), 20) THEN Aborted
  ELSE IF Right(rest, 39) = <<>> THEN Err("InvalidInstructionData")
  ELSE Decoded([tag |-> "CreateAccount", lamports |-> FromLeBytes(SubSeq(rest, 4, 11)),
                space |-> FromLeBytes(SubSeq(rest, 12, 19)),
                ether |-> SubSeq(rest, 20, 39), nonce |-> rest[40]])

\* tag 4, after the seed: lamports (8), space (8), owner (32)
UnpackSeedTail(base, seed, rest) ==
  IF SplitAtPanics(rest, 8) THEN Aborted
  ELSE IF SplitAtPanics(Right(rest, 8), 8) THEN Aborted
  ELSE IF SplitAtPanics(Right(rest, 16), 32) THEN Aborted
  ELSE Decoded([tag |-> "CreateAccountWithSeed", base |-> base, seed |-> seed,
                lamports |-> FromLeBytes(SubSeq(rest, 1, 8)),
                space |-> FromLeBytes(SubSeq(rest, 9, 16)),
                owner |-> SubSeq(rest, 17, 48)])

\* tag 4: padding (3), base (32), seed_len (4), padding (4), seed, the tail
UnpackCreateAccountWithSeed(rest) ==
  IF SplitAtPanics(rest, 3) THEN Aborted
  ELSE IF SplitAtPanics(Right(rest, 3), 32) THEN Aborted
  ELSE IF SplitAtPanics(Right(rest, 35), 4) THEN Aborted
  ELSE IF SplitAtPanics(Right(rest, 39), 4) THEN Aborted
  ELSE IF SplitAtPanics(Right(rest, 43), FromLeBytes(SubSeq(rest, 36, 39))) THEN Aborted
  ELSE UnpackSeedTail(SubSeq(rest, 4, 35),
                      Left(Right(rest, 43), FromLeBytes(SubSeq(rest, 36, 39))),
                      Right(rest, 43 + FromLeBytes(SubSeq(rest, 36, 39))))

\* tag 6, the loop over topics_cnt topics of 32 bytes
RECURSIVE UnpackTopics(_, _, _, _)
UnpackTopics(address, topics, cnt, rest) ==
  IF cnt = 0 THEN Decoded([tag |-> "OnEvent", address |-> address, topics |-> topics,
                           data |-> rest])
  ELSE IF SplitAtPanics(rest, 32) THEN Aborted
  ELSE UnpackTopics(address, Append(topics, Left(rest, 32)), cnt - 1, Right(rest, 32))

\* tag 6: address (20), topics_cnt (8), the topics, then the data
UnpackOnEvent(rest) ==
  IF SplitAtPanics(rest, 20) THEN Aborted
  ELSE IF SplitAtPanics(Right(rest, 20), 8) THEN Aborted
  ELSE UnpackTopics(Left(rest, 20), <<>>, FromLeBytes(SubSeq(rest, 21, 28)), Right(rest, 28))

UnpackTag(tag, rest) ==
  CASE tag = 0 -> UnpackWrite(rest)
    [] tag = 1 -> UnpackFinalize(rest)
    [] tag = 2 -> UnpackCreateAccount(rest)
    [] tag = 3 -> Decoded([tag |-> "Call", bytes |-> rest])
    [] tag = 4 -> UnpackCreateAccountWithSeed(rest)
    [] tag = 5 -> Decoded([tag |-> "OnReturn", bytes |-> rest])
    [] tag = 6 -> UnpackOnEvent(rest)
    [] OTHER -> Err("InvalidInstructionData")

\* EvmInstruction::unpack
Unpack(input) ==
  IF input = <<>> THEN Err("InvalidInstructionData") ELSE UnpackTag(input[1], Tail(input))

\* A well-formed payload of each tag whose length field announces k.
Body(tag, k) ==
  CASE tag = 0 -> Fill(0, 3) \o Fill(0, 4) \o <<k>> \o Fill(0, 7) \o Fill(1, k)
    [] tag = 1 -> Fill(0, 3)
    [] tag = 2 -> Fill(0, 3) \o <<1>> \o Fill(0, 7) \o Fill(0, 8) \o Fill(2, 20) \o <<k>>
    [] tag = 4 -> Fill(0, 3) \o Fill(3, 32) \o <<k>> \o Fill(0, 3) \o Fill(0, 4)
                    \o Fill(1, k) \o Fill(0, 8) \o Fill(0, 8) \o Fill(4, 32)
    [] tag = 6 -> Fill(2, 20) \o <<k>> \o Fill(0, 7) \o Fill(5, 32 * k) \o <<1>>
    [] OTHER -> <<1, 2>>

Prefix(s, n) == IF n < Len(s) THEN SubSeq(s, 1, n) ELSE s

\* The inputs of unpack: nothing, and every tag byte up to 8 followed by
\* every prefix of a well-formed payload.
UnpackInputs ==
  {<<>>} \cup {<<tag>> \o Prefix(Body(tag, k), n) :
                 tag \in 0..8, k \in 0..MaxCount, n \in 0..(60 + 32 * MaxCount)}

InitUnpack ==
  /\ InitMachine
  /\ backend = [code |-> [a \in Addrs |-> <<>>], nonce |-> [a \in Addrs |-> 0]]
  /\ accounts = <<>>
  /\ aliases = <<>>
  /\ host = [op |-> "none", input |-> <<>>, res |-> Ok]
  /\ emulator = EmulatorNew(Addr.a1, Addr.a2)

\* process_instruction's first step on the instruction data
UnpackCall ==
  /\ \E input \in UnpackInputs :
       host' = [op |-> "unpack", input |-> input, res |-> Unpack(input)]
  /\ UNCHANGED <<runtime, state, backend, storage, drv, last, hist, accounts, aliases, emulator>>

NextUnpack == UnpackCall

SpecUnpack == InitUnpack /\ [][NextUnpack]_vars

\* ------------------------------------------------------------ history views

ExitCalls == {"exit_commit", "exit_revert", "exit_discard"}

Has(ev, e) == \E i \in 1..Len(ev) : ev[i] = e

\* The place of the first e in ev.
Pos(ev, e) == CHOOSE i \in 1..Len(ev) : ev[i] = e /\ \A j \in 1..(i - 1) : ev[j] # e

NumExits(ev) == Cardinality({i \in 1..Len(ev) : ev[i] \in ExitCalls})

\* The last operation was a step() on a machine with a frame, made while
\* call_begin and every earlier step() had returned Ok.
CleanStep == last.kind = "step" /\ last.clean /\ last.runtime # <<>>

\* The frame that step() stepped, as it was before the step.
PreTop == last.runtime[Len(last.runtime)]

\* What the interpreter answered in the last step.
PreCap == RuntimeStep(PreTop.rt, last.state, backend)

\* The opcode the stepped frame was at.
PreOp ==
  IF PreTop.rt.status = 0 /\ PreTop.rt.pc <= Len(PreTop.rt.code)
  THEN Op(PreTop.rt.code[PreTop.rt.pc]).op ELSE "none"

\* The top frame exited in the last step.
TopExited == CleanStep /\ PreCap.cap[1] = "Exit"

\* --------------------------------------------------------------------- C1

\* C1 (as claimed): in every step() in which a frame exits, exactly one of
\* exit_commit / exit_revert / exit_discard is issued, and it is issued
\* before the frame is popped; a step() in which no frame exits issues none.
\* This is to hold on every exit path, the Create child with over-long code
\* included.
C1_FrameDiscipline ==
  CleanStep =>
    /\ NumExits(last.ev) = (IF TopExited THEN 1 ELSE 0)
    /\ Has(last.ev, "pop") =>
         \E i \in 1..Len(last.ev) : last.ev[i] \in ExitCalls /\ i < Pos(last.ev, "pop")

\* --------------------------------------------------------------------- C2

\* C2: when a frame exits with Revert, Error or Fatal, the state that is left
\* (the one into_state() returns) is the state as it was when that frame was
\* pushed: no effect staged by the frame or below it is in any sub-state.
\* When a child exits with Succeed, its effects are in its parent's
\* sub-state: everything staged so far is still staged, one level up.
C2_ChildEffects ==
  TopExited =>
    /\ IsFailure(PreCap.cap[2]) =>
         state = hist.snaps[Len(runtime)].at
    /\ (PreCap.cap[2][1] = "Succeed" /\ last.res = <<"Ok">>) =>
         /\ Len(state) = Len(last.state) - 1
         /\ SubSeq(AllEffects(state), 1, Len(AllEffects(PreCap.st))) = AllEffects(PreCap.st)
         /\ SubSeq(state, 1, Len(state) - 1) = SubSeq(last.state, 1, Len(state) - 1)

\* A child that staged a storage write fails, under an open parent.
C2_Witness ==
  /\ TopExited
  /\ IsFailure(PreCap.cap[2])
  /\ Len(runtime) >= 2
  /\ \E i \in 1..Len(PreCap.st[Len(PreCap.st)].eff) :
       PreCap.st[Len(PreCap.st)].eff[i].k = "storage"

\* --------------------------------------------------------------------- C3

\* C3: when the top frame exits with Error, Revert or Fatal, at any depth,
\* that step() returns Err with the frame's reason, no frame is popped and no
\* frame below is touched, and execute() returns that reason.
C3_FailureBubbles ==
  (TopExited /\ IsFailure(PreCap.cap[2])) =>
    /\ last.res = <<"Err", PreCap.cap[2]>>
    /\ Len(runtime) = Len(last.runtime)
    /\ SubSeq(runtime, 1, Len(runtime) - 1) = SubSeq(last.runtime, 1, Len(runtime) - 1)
    /\ last.by = "execute" => (drv.pc = "idle" /\ drv.ret = Some(PreCap.cap[2]))

\* A nested frame fails inside execute().
C3_Witness ==
  /\ TopExited
  /\ IsFailure(PreCap.cap[2])
  /\ Len(last.runtime) >= 2
  /\ last.by = "execute"
  /\ drv.ret = Some(PreCap.cap[2])

\* --------------------------------------------------------------------- C4

\* C4: step() returns Err(Succeed) only from a stack of exactly one frame
\* whose frame exits with Succeed; a non-root frame with reason Call that
\* exits with Succeed is committed, then popped, then its return bytes are
\* written into the new top frame, and step() returns Ok.
C4_SucceedRouting ==
  /\ (last.kind = "step" /\ last.res[1] = "Err" /\ last.res[2][1] = "Succeed") =>
       /\ Len(last.runtime) = 1
       /\ PreCap.cap = <<"Exit", last.res[2]>>
  /\ (TopExited /\ PreCap.cap[2][1] = "Succeed" /\ Len(last.runtime) > 1
        /\ PreTop.reason = Some("Call")) =>
       /\ last.res = <<"Ok">>
       /\ Has(last.ev, "exit_commit") /\ Has(last.ev, "pop") /\ Has(last.ev, "save_return_value")
       /\ Pos(last.ev, "exit_commit") < Pos(last.ev, "pop")
       /\ Pos(last.ev, "pop") < Pos(last.ev, "save_return_value")
       /\ Len(runtime) = Len(last.runtime) - 1
       /\ runtime[Len(runtime)].rt.memory = PreCap.rt.ret
       /\ runtime[Len(runtime)].rt.stack = Append(last.runtime[Len(runtime)].rt.stack, 1)
       /\ state = ExitCommit(PreCap.st).st

\* A called child returns bytes to its parent.
C4_Witness ==
  /\ TopExited
  /\ PreCap.cap[2] = <<"Succeed", "Returned">>
  /\ Len(last.runtime) > 1
  /\ PreTop.reason = Some("Call")
  /\ runtime[Len(runtime)].rt.memory # <<>>

\* --------------------------------------------------------------------- C5

\* C5: execute_n_steps(n) calls step() at most n times; it returns Err right
\* after the first step() that returned Err, and returns Ok only after n
\* calls that all returned Ok.
C5_StepBound ==
  drv.op = "execute_n_steps" =>
    /\ drv.calls <= drv.n
    /\ drv.pc = "exec_n" => drv.i = drv.calls
    /\ (drv.pc = "idle" /\ drv.ret = Some(<<"Ok">>)) => (drv.calls = drv.n /\ drv.i = drv.n)
    /\ (drv.pc = "idle" /\ drv.ret # Some(<<"Ok">>)) =>
         /\ drv.ret = Some(last.res)
         /\ last.res[1] = "Err"
         /\ last.by = "execute_n_steps"
         /\ drv.calls = drv.i + 1

\* execute_n_steps(MaxN) stops early, at a step that returned Err.
C5_Witness ==
  /\ drv.op = "execute_n_steps"
  /\ drv.pc = "idle"
  /\ drv.n = MaxN
  /\ drv.calls = 1
  /\ drv.ret # Some(<<"Ok">>)

\* --------------------------------------------------------------------- C6

Begun == CallBeginOp(MachineNew.runtime, MachineNew.state, backend, Addr.user, Addr.a1, <<>>)

Whole == ExecuteOp(Begun.runtime, Begun.state, backend, Fuel)

C8_FrameLifecycle ==
  (last.kind = "step" /\ last.runtime # <<>>) =>
    /\ PreTop.rt.status = 0
    /\ \A i \in 1..(Len(last.runtime) - 1) :
         i < Len(runtime) => runtime[i] = last.runtime[i]

\* --------------------------------------------------------------------- C9

\* The frame on top was pushed by CREATE.
TopIsCreate == PreTop.reason # None /\ PreTop.reason[1] = "Create"

\* C9 (as claimed): a CREATE stages the caller's nonce increment before the
\* child's sub-state is entered and its frame pushed, in the caller's
\* sub-state; and when the created child's step() ends the run with an
\* Error, Revert or Fatal reason, the caller's nonce in the state that is
\* left is one more than before the CREATE.
C9_CreateBurnsNonce ==
  /\ (CleanStep /\ Has(last.ev, "CreateInterrupt")) =>
       /\ Pos(last.ev, "inc_nonce") < Pos(last.ev, "CreateInterrupt")
       /\ Pos(last.ev, "CreateInterrupt") < Pos(last.ev, "enter")
       /\ Pos(last.ev, "enter") < Pos(last.ev, "push")
       /\ Nonce(SubSeq(state, 1, Len(state) - 1), backend, PreTop.rt.context.address)
            = Nonce(last.state, backend, PreTop.rt.context.address) + 1
  /\ (TopExited /\ TopIsCreate /\ last.res[1] = "Err" /\ IsFailure(last.res[2])) =>
       Nonce(state, backend, PreTop.rt.context.caller)
         = Nonce(hist.snaps[Len(last.runtime)].pre, backend, PreTop.rt.context.caller) + 1

\* -------------------------------------------------------------------- C10

\* The stepped frame is at a CALL or CREATE with depth + 1 over the limit.
AtCallTooDeep ==
  /\ CleanStep
  /\ PreOp \in {"CALL", "CREATE"}
  /\ Depth(last.state) # None
  /\ Depth(last.state)[1] + 1 > CallStackLimit

\* C10: a CALL or CREATE made when depth + 1 exceeds call_stack_limit gets
\* Exit(CallTooDeep): no interrupt is raised, no frame is pushed, no
\* sub-state is entered, call_inner is not consulted, no nonce is
\* incremented, and the caller's frame goes on with a failure word on its
\* stack. Below the limit, the handler does not answer CallTooDeep.
C10_CallTooDeep ==
  /\ AtCallTooDeep =>
       /\ last.ev = <<"CallTooDeep">>
       /\ last.res = <<"Ok">>
       /\ Len(runtime) = Len(last.runtime)
       /\ state = last.state
       /\ runtime[Len(runtime)].rt.stack = Append(PreTop.rt.stack, 0)
       /\ runtime[Len(runtime)].rt.status = 0
  /\ (CleanStep /\ PreOp \in {"CALL", "CREATE"} /\ ~AtCallTooDeep) =>
       /\ ~Has(last.ev, "CallTooDeep")
       /\ PreOp = "CREATE" => Has(last.ev, "inc_nonce")
       /\ PreOp = "CALL" => Has(last.ev, "call_inner")

\* A child frame at the depth limit made a CREATE and was refused.
C10_Witness ==
  /\ AtCallTooDeep
  /\ PreOp = "CREATE"
  /\ Len(last.runtime) = CallStackLimit + 1
  /\ last.ev = <<"CallTooDeep">>

\* -------------------------------------------------------------------- C11

\* The stepped frame is at a CREATE, within the depth limit.
AtCreate == CleanStep /\ PreOp = "CREATE" /\ ~AtCallTooDeep

\* The address that CREATE derives already has code or a non-zero nonce.
CreateTargetTaken ==
  \/ Code(last.state, backend, CreateAddress("Create2", PreTop.rt.context.address)) # <<>>
  \/ Nonce(last.state, backend, CreateAddress("Create2", PreTop.rt.context.address)) > 0

\* C11 (as claimed): a CREATE whose target address has neither code nor a
\* nonce gets its child frame; a CREATE with the same caller, code and salt
\* made after it, whose target address now has code or a non-zero nonce, is
\* refused: no interrupt, no frame pushed, a failure word left on the
\* caller's stack.
C11_CreateCollision ==
  /\ (AtCreate /\ ~CreateTargetTaken) => Has(last.ev, "push")
  /\ (AtCreate /\ CreateTargetTaken) =>
       /\ ~Has(last.ev, "CreateInterrupt")
       /\ ~Has(last.ev, "push")
       /\ Len(runtime) = Len(last.runtime)
       /\ runtime[Len(runtime)].rt.stack = Append(PreTop.rt.stack, 0)

\* -------------------------------------------------------------------- C12

\* A frame pushed by CREATE exits with Succeed.
CreatedExit == TopExited /\ TopIsCreate /\ PreCap.cap[2][1] = "Succeed"

\* C12: when a created frame exits with Succeed and more return bytes than
\* create_contract_limit, step() returns Err(CreateContractLimit), set_code
\* is not called and nothing the created frame staged is left in the state
\* (the state is the one its creator was entered on); otherwise the bytes
\* become the created address's code and the address goes onto the
\* creator's stack. No staged code is ever longer than the limit.
C12_CreateLimit ==
  /\ (CreatedExit /\ Len(PreCap.rt.ret) > CreateContractLimit) =>
       /\ last.res = <<"Err", <<"Error", "CreateContractLimit">>>>
       /\ ~Has(last.ev, "set_code")
       /\ ~Has(last.ev, "save_created_address")
       /\ state = SubSeq(hist.snaps[Len(last.runtime)].pre, 1,
                         Len(hist.snaps[Len(last.runtime)].pre) - 1)
  /\ (CreatedExit /\ Len(PreCap.rt.ret) <= CreateContractLimit) =>
       /\ last.res = <<"Ok">>
       /\ Has(last.ev, "set_code")
       /\ Code(state, backend, PreTop.reason[2]) = PreCap.rt.ret
       /\ runtime[Len(runtime)].rt.stack
            = Append(last.runtime[Len(runtime)].rt.stack, PreTop.reason[2])
  /\ \A i \in 1..Len(AllEffects(state)) :
       AllEffects(state)[i].k = "code" => Len(AllEffects(state)[i].d) <= CreateContractLimit

\* A created frame returned more bytes than the limit after staging a write.
C12_Witness ==
  /\ CreatedExit
  /\ Len(PreCap.rt.ret) > CreateContractLimit
  /\ PreCap.st[Len(PreCap.st)].eff # <<>>
  /\ last.res = <<"Err", <<"Error", "CreateContractLimit">>>>

\* ----------------------------------------------------------- host views
\* What the host stores of the accounts: each blob (header, code, storage)
\* and lamport balance.
Blobs(acs) ==
  [i \in DOMAIN acs |-> [header |-> acs[i].header, code |-> acs[i].code,
                         storage |-> acs[i].storage, lamports |-> acs[i].lamports]]

\* The last host operation was this one.
HostOp(op) == host.op = op

\* The last host operation was a Call or Finalize instruction.
Instruction == HostOp("call") \/ HostOp("finalize")

\* The last host operation was call_inner on the sentinel, asked for request k.
Intercepted(k) ==
  /\ HostOp("call_inner")
  /\ host.arg.code_address = Addr.sol
  /\ host.arg.request = CpiRequests[k]

\* An account entry of a request names an E-addr no view answers to.
Unresolved(a) == a.needs_translate /\ FindAccountAt(aliases, a.key) = None

\* The instruction a request stands for: every translated entry replaced by
\* the host key of its view.
RECURSIVE TranslatedInfos(_)
TranslatedInfos(accs) ==
  IF accs = <<>> THEN <<>>
  ELSE (IF Head(accs).needs_translate THEN <<FindAccountAt(aliases, Head(accs).key)[1]>>
        ELSE <<>>) \o TranslatedInfos(Tail(accs))

RECURSIVE TranslatedMetas(_)
TranslatedMetas(accs) ==
  IF accs = <<>> THEN <<>>
  ELSE <<[pubkey |-> IF Head(accs).needs_translate
                     THEN Pubkey(FindAccountAt(aliases, Head(accs).key)[1])
                     ELSE Head(accs).key,
          is_signer |-> Head(accs).is_signer, is_writable |-> Head(accs).is_writable]>>
       \o TranslatedMetas(Tail(accs))

Translated(req) ==
  [program_id |-> req.program_id, accounts |-> TranslatedMetas(req.accounts),
   data |-> req.data, infos |-> TranslatedInfos(req.accounts)]

\* -------------------------------------------------------------------- C13
\* C13: a view's code is set once: an update that carries code for a view
\* whose code_size is not zero fails with AccountAlreadyInitialized, and an
\* update that carries code for a view that an earlier update already
\* carried code for leaves code_size and the code as they were.
C13_CodeSetOnce ==
  /\ (HostOp("update") /\ host.arg.code # None
        /\ host.pre[host.pos].account_data.code_size # 0)
     => host.res = Err("AccountAlreadyInitialized")
  /\ (HostOp("update") /\ host.arg.code # None /\ host.codeSetPre[host.pos]) =>
        /\ accounts[host.pos].header.code_size = host.pre[host.pos].header.code_size
        /\ accounts[host.pos].code = host.pre[host.pos].code

\* -------------------------------------------------------------------- C14
\* C14: no update, apply or instruction makes the trx_count stored in a
\* blob's header smaller than it was.
C14_TrxCountMonotone ==
  (HostOp("update") \/ HostOp("apply") \/ Instruction) =>
     \A i \in DOMAIN accounts :
        accounts[i].header.trx_count >= host.pre[i].header.trx_count

\* -------------------------------------------------------------------- C15
\* C15: apply fails with NotEnoughAccountKeys when a Modify effect names an
\* address (other than the sentinel) that no view answers to, and an apply
\* that returns Ok has called update, with the effect's own nonce, balance,
\* code, storage and reset_storage, for every Modify effect whose address
\* has a view.
C15_ApplyResolves ==
  HostOp("apply") =>
     /\ (\E k \in DOMAIN host.arg.values :
           /\ host.arg.values[k].kind = "Modify"
           /\ host.arg.values[k].address # Addr.sol
           /\ FindAccount(aliases, host.arg.values[k].address) = None)
        => host.res = Err("NotEnoughAccountKeys")
     /\ host.res = Ok =>
          \A k \in DOMAIN host.arg.values :
             (/\ host.arg.values[k].kind = "Modify"
              /\ FindAccount(aliases, host.arg.values[k].address) # None)
             => \E j \in DOMAIN host.updates[1] :
                   host.updates[1][j]
                     = [pos |-> FindAccount(aliases, host.arg.values[k].address)[1],
                        m |-> host.arg.values[k]]

\* -------------------------------------------------------------------- C16
\* C16: Call and Finalize invoke apply exactly when the executor's exit
\* reason is Succeed; when it is Revert, Error or Fatal the handler has
\* written no account blob and no lamport balance, and the host's accounts
\* are the ones before the instruction.
C16_ApplyOnlyOnSucceed ==
  Instruction =>
     /\ host.applied <=> IsSucceed(host.arg.out.exit_reason)
     /\ ~IsSucceed(host.arg.out.exit_reason) =>
          /\ Blobs(host.written) = Blobs(host.pre)
          /\ Blobs(accounts) = Blobs(host.pre)

\* A Call whose executor reverted after staging effects on a view.
C16_Witness ==
  /\ HostOp("call")
  /\ host.arg.out.exit_reason[1] = "Revert"
  /\ host.arg.out.applies # <<>>
  /\ ~host.applied
  /\ host.res = Err("InvalidInstructionData")

\* -------------------------------------------------------------------- C17
\* C17: a Call whose executor ends in Revert is a normal outcome: with a
\* working OnReturn delivery the instruction returns Ok and the EVM's
\* return bytes are delivered as they are for a successful call.
C17_RevertDelivered ==
  (HostOp("call") /\ host.arg.out.exit_reason[1] = "Revert" /\ host.arg.invoke_ok) =>
     /\ host.res = Ok
     /\ host.delivered = Some(<<5>> \o host.arg.out.result)

\* -------------------------------------------------------------------- C18
\* C18: call_inner intercepts a call exactly when code_address is the
\* sentinel (0xff then 19 zero bytes) and returns None for every other
\* address; apply skips a Modify effect for no address but the sentinel.
C18_SentinelOnly ==
  /\ HostOp("call_inner") =>
       ((host.res = None /\ ~host.panic)
          <=> H160(host.arg.code_address) # <<255>> \o Fill(0, 19))
  /\ HostOp("apply") =>
       \A k \in DOMAIN host.arg.values :
          (/\ host.arg.values[k].kind = "Modify"
           /\ H160(host.arg.values[k].address) # <<255>> \o Fill(0, 19)
           /\ host.res = Ok)
          => \E j \in DOMAIN host.updates[1] : host.updates[1][j].m = host.arg.values[k]

\* -------------------------------------------------------------------- C19
\* C19: an intercepted call whose payload has a needs_translate entry naming
\* an E-addr without a view returns Error(InvalidRange) and invokes nothing;
\* one whose entries all resolve invokes exactly the instruction the payload
\* stands for and returns Succeed(Stopped) with no return data.
C19_CpiTranslate ==
  \A k \in DOMAIN CpiRequests :
     Intercepted(k) =>
        IF \E i \in DOMAIN CpiRequests[k].accounts : Unresolved(CpiRequests[k].accounts[i])
        THEN /\ host.res = Some(<<"Exit", <<"Error", "InvalidRange">>, <<>>>>)
             /\ host.invoked = <<>>
        ELSE /\ host.res = Some(<<"Exit", <<"Succeed", "Stopped">>, <<>>>>)
             /\ host.invoked = <<Translated(CpiRequests[k])>>

\* -------------------------------------------------------------------- C20
\* C20: when the host program an intercepted call invokes fails, call_inner
\* returns an Error exit; Succeed(Stopped) is returned only when it succeeded.
C20_CpiFailureIsError ==
  (HostOp("call_inner") /\ host.invoked # <<>> /\ ~host.cpi_ok) =>
     /\ host.res # None
     /\ host.res[1][2][1] = "Error"

\* -------------------------------------------------------------------- C21
\* C21: call_inner decodes a payload by the wire format whatever the number
\* of accounts: when every entry resolves, the instruction it issues has the
\* encoded program id, one account per entry with that entry's key (the host
\* key of the view for a translated entry) and flags, and the encoded data.
C21_PayloadDecoded ==
  \A k \in DOMAIN CpiRequests :
     (Intercepted(k)
        /\ \A i \in DOMAIN CpiRequests[k].accounts : ~Unresolved(CpiRequests[k].accounts[i]))
     => /\ ~host.panic
        /\ Len(host.invoked) = 1
        /\ host.invoked[1].program_id = CpiRequests[k].program_id
        /\ host.invoked[1].accounts = TranslatedMetas(CpiRequests[k].accounts)
        /\ host.invoked[1].data = CpiRequests[k].data

\* -------------------------------------------------------------------- C22
\* C22: mark_delete(addr, beneficiary) with a beneficiary other than addr
\* gives the beneficiary addr's whole balance on top of its own, leaves addr
\* with balance 0 and marks addr deleted; when the transfer fails with
\* OutOfFund, addr keeps its balance and is not marked deleted by the call.
C22_MarkDeleteMovesBalance ==
  (host.op = "mark_delete" /\ host.address # host.target) =>
     IF host.res = <<"Ok">>
     THEN /\ Balance(state, backend, host.target)
               = Balance(host.pre, backend, host.target)
                 + Balance(host.pre, backend, host.address)
          /\ Balance(state, backend, host.address) = 0
          /\ Deleted(state, host.address)
     ELSE /\ host.res = <<"Err", <<"Error", "OutOfFund">>>>
          /\ Balance(state, backend, host.address) = Balance(host.pre, backend, host.address)
          /\ Deleted(state, host.address) = Deleted(host.pre, host.address)

\* A contract with a balance was destroyed in favour of an account that had
\* a balance of its own.
C22_Witness ==
  /\ host.op = "mark_delete"
  /\ host.address # host.target
  /\ host.res = <<"Ok">>
  /\ Balance(host.pre, backend, host.address) > 0
  /\ Balance(host.pre, backend, host.target) > 0
  /\ Deleted(state, host.address)

\* -------------------------------------------------------------------- C23
\* C23: exists(a) is state.exists(a) when empty_considered_exists is set and
\* state.exists(a) and not state.is_empty(a) when it is not; for a contract
\* whose mark_delete has been committed it is false when the flag is not set.
C23_ExistsAfterSelfdestruct ==
  host.op = "exists" =>
     /\ host.res = IF host.flag THEN StateExists(state, backend, host.address)
                   ELSE StateExists(state, backend, host.address)
                        /\ ~IsEmpty(state, backend, host.address)
     /\ (/\ ~host.flag
         /\ host.address \in host.committed
         /\ Deleted(state, host.address)
         /\ Code(state, backend, host.address) # <<>>)
        => host.res = FALSE

\* -------------------------------------------------------------------- C24
\* C24: for an address no view answers to, the Backend says exists = false,
\* balance 0 and nonce 0, code_size 0, no code, the Keccak-256 of no bytes as
\* code_hash, and zero for every storage key; for a view whose code_size is 0
\* every storage read is zero.
C24_ReadDefaults ==
  HostOp("read") =>
     /\ (\A i \in DOMAIN aliases : aliases[i][1] # host.arg.address) =>
          /\ host.res.exists = FALSE
          /\ host.res.basic = [balance |-> 0, nonce |-> 0]
          /\ host.res.code_size = 0
          /\ host.res.code = <<>>
          /\ host.res.code_hash = Keccak256(<<>>)
          /\ host.res.storage = Fill(0, 32)
     /\ \A i \in DOMAIN aliases :
          (aliases[i][1] = host.arg.address
             /\ accounts[aliases[i][2]].account_data.code_size = 0)
          => host.res.storage = Fill(0, 32)

\* The getters were asked about an address without a view.
C24_Witness ==
  /\ HostOp("read")
  /\ \A i \in DOMAIN aliases : aliases[i][1] # host.arg.address
  /\ host.res.exists = FALSE

\* -------------------------------------------------------------------- C25
\* C25: origin() is the E-addr of the transaction's outer caller, the view
\* at index 1 of the instruction's accounts, whenever it is asked.
C25_OriginIsCaller ==
  HostOp("read") =>
     \E i \in DOMAIN aliases : aliases[i][2] = 2 /\ host.res.origin = H160(aliases[i][1])

\* -------------------------------------------------------------------- C26
\* C26: unpack answers Err(InvalidInstructionData) to no input and to every
\* tag byte outside 0..6, and answers every input, a payload shorter than
\* its tag's layout included, with an instruction or an error, never by
\* aborting.
C26_UnpackTotal ==
  HostOp("unpack") =>
     /\ (host.input = <<>> \/ host.input[1] \notin 0..6)
           => host.res = Err("InvalidInstructionData")
     /\ host.res # Aborted

\* -------------------------------------------------------------------- C27
\* C27: after create with a CREATE2 salt that is the host key of the account
\* at position i, every lookup of the new address answers i from then on and
\* the addresses registered before answer as before; when no account has
\* that key the alias table is unchanged, and an apply of a Modify on the
\* new address fails from then on.
C27_CreateRegisters ==
  /\ HostOp("create") =>
       IF host.arg.scheme.kind = "Create2"
          /\ \E i \in DOMAIN accounts : host.arg.scheme.salt = Pubkey(i)
       THEN /\ \E i \in DOMAIN accounts :
                 /\ host.arg.scheme.salt = Pubkey(i)
                 /\ FindAccount(aliases, host.arg.address) = Some(i)
            /\ \A k \in DOMAIN host.arg.aliases :
                 FindAccount(aliases, host.arg.aliases[k][1]) = Some(host.arg.aliases[k][2])
       ELSE aliases = host.arg.aliases
  /\ \A c \in host.created :
       c.pos # 0 => FindAccount(aliases, c.address) = Some(c.pos)
  /\ HostOp("apply") =>
       \A k \in DOMAIN host.arg.values :
          (/\ host.arg.values[k].kind = "Modify"
           /\ [address |-> host.arg.values[k].address, pos |-> 0] \in host.created
           /\ \A c \in host.created : c.address = host.arg.values[k].address => c.pos = 0)
          => host.res # Ok

\* -------------------------------------------------------------------- C28
\* C28: the emulator's apply changes no cached account's data or lamports,
\* caches and drops nothing, and turns writable on for exactly the cached
\* addresses its Modify effects name; no operation turns a writable flag off.
C28_ApplyMarksWritable ==
  /\ HostOp("apply") =>
       \A a \in Addrs :
          IF host.pre.accounts[a] = None THEN emulator.accounts[a] = None
          ELSE /\ emulator.accounts[a] # None
               /\ emulator.accounts[a][1].account = host.pre.accounts[a][1].account
               /\ emulator.accounts[a][1].code_account = host.pre.accounts[a][1].code_account
               /\ emulator.accounts[a][1].writable
                    <=> \/ host.pre.accounts[a][1].writable
                        \/ \E k \in DOMAIN host.arg.values :
                              /\ host.arg.values[k].kind = "Modify"
                              /\ host.arg.values[k].address = a
  /\ \A a \in Addrs :
       (host.pre.accounts[a] # None /\ host.pre.accounts[a][1].writable)
       => (emulator.accounts[a] # None /\ emulator.accounts[a][1].writable)

\* An apply named a cached, not yet writable account in a Modify, next to a
\* cached account it did not name.
C28_Witness ==
  /\ HostOp("apply")
  /\ \E a \in Addrs :
       /\ host.pre.accounts[a] # None
       /\ ~host.pre.accounts[a][1].writable
       /\ emulator.accounts[a][1].writable
  /\ \E a \in Addrs : emulator.accounts[a] # None /\ ~emulator.accounts[a][1].writable

\* -------------------------------------------------------------------- C29
\* C29: the report's entries with new = true are exactly the addresses and
\* keys that were looked up and that the remote did not answer for, and no
\* address is reported both with new = false and with new = true.
C29_ReportNew ==
  HostOp("report") =>
     /\ {[address |-> e.address, key |-> e.key] : e \in {x \in host.res : x.new}}
          = {IF m.kind = "Solidity"
             THEN [address |-> Hex(m.address), key |-> SolanaAddress(emulator, m.address)]
             ELSE [address |-> "", key |-> m.key] : m \in host.missed}
     /\ \A e1 \in host.res, e2 \in host.res :
          (e1.address # "" /\ e1.address = e2.address) => e1.new = e2.new

\* -------------------------------------------------------------------- C30
\* What the insert and remove calls made so far leave a key with: the value
\* of its last insert, nothing if it was removed since or never inserted.
RECURSIVE LastWrite(_, _)
LastWrite(log, key) ==
  IF log = <<>> THEN None
  ELSE IF log[Len(log)].key # key THEN LastWrite(SubSeq(log, 1, Len(log) - 1), key)
  ELSE IF log[Len(log)].op = "insert" THEN Some(log[Len(log)].value)
  ELSE None

RECURSIVE Applicable(_)
Applicable(values) ==
  IF values = <<>> THEN <<>>
  ELSE (IF Head(values).kind = "Modify" /\ ~IsSolanaAddress(Head(values).address)
        THEN <<Head(values)>> ELSE <<>>) \o Applicable(Tail(values))

\* Going through these effects in order up to the first that fails: how many
\* reached update, the accounts as written by then, and whether one failed.
RECURSIVE UpToFailure(_, _, _)
Written(acs, app, n, pos, u) ==
  IF u.res # Ok THEN [n |-> n + 1, accounts |-> [acs EXCEPT ![pos] = u.acc], failed |-> TRUE]
  ELSE UpToFailure([acs EXCEPT ![pos] = u.acc], Tail(app), n + 1)

UpToFailure(acs, app, n) ==
  IF app = <<>> THEN [n |-> n, accounts |-> acs, failed |-> FALSE]
  ELSE IF \A i \in DOMAIN aliases : aliases[i][1] # Head(app).address
  THEN [n |-> n, accounts |-> acs, failed |-> TRUE]
  ELSE Written(acs, app, n, FindAccount(aliases, Head(app).address)[1],
               Update(acs[FindAccount(aliases, Head(app).address)[1]], Head(app).nonce,
                      Head(app).balance, Head(app).code, Head(app).storage,
                      Head(app).reset_storage))

StoppedAt(app, s) ==
  /\ (host.res # Ok) <=> s.failed
  /\ host.written = s.accounts
  /\ [j \in DOMAIN host.updates[1] |-> host.updates[1][j].m] = SubSeq(app, 1, s.n)

\* C31: apply goes through the effects in the list's order and stops at the
\* first that fails, with that error: what the effects before it wrote is in
\* the accounts, and no effect after it reaches update.
C31_ApplyStopsAtFailure ==
  HostOp("apply") =>
     StoppedAt(Applicable(host.arg.values),
               UpToFailure(host.pre, Applicable(host.arg.values), 0))

\* An apply failed on its second effect after the first had written.
C31_Witness ==
  /\ HostOp("apply")
  /\ host.res # Ok
  /\ Len(host.arg.values) = 2
  /\ Len(host.updates[1]) = 1
  /\ host.written # host.pre

\* -------------------------------------------------------------------- C32
\* The host account after the steps of an update up to the given one: the
\* balance, (b) the trx_count, (c) the code and code_size, (d, e) the storage.
BalanceWritten(w, arg) == w.lamports = arg.lamports

TrxCountWritten(w, arg) == w.header.trx_count = arg.nonce

CodeWritten(w, p, arg) ==
  IF arg.code = None THEN w.code = p.code /\ w.header.code_size = p.header.code_size
  ELSE w.code = arg.code[1] /\ w.header.code_size = Len(arg.code[1])

StorageWritten(w, p, arg) ==
  IF arg.reset \/ arg.items # <<>>
  THEN w.storage = HamtInsertAll(HamtNew(p.storage, arg.reset), arg.items)
  ELSE w.storage = p.storage

\* C32: update writes back the balance, then the trx_count, then the code
\* with code_size, then the storage reset and the storage items; when a step
\* fails, the host account has what the steps before it wrote and nothing of
\* that step or of the later ones.
C32_UpdateOrder ==
  HostOp("update") =>
     /\ host.res = Err("AccountAlreadyInitialized") =>
          /\ BalanceWritten(host.written[host.pos], host.arg)
          /\ TrxCountWritten(host.written[host.pos], host.arg)
          /\ host.written[host.pos].code = host.pre[host.pos].code
          /\ host.written[host.pos].header.code_size = host.pre[host.pos].header.code_size
          /\ host.written[host.pos].storage = host.pre[host.pos].storage
     /\ host.res = Err("UninitializedAccount") =>
          /\ BalanceWritten(host.written[host.pos], host.arg)
          /\ TrxCountWritten(host.written[host.pos], host.arg)
          /\ CodeWritten(host.written[host.pos], host.pre[host.pos], host.arg)
          /\ host.written[host.pos].storage = host.pre[host.pos].storage
     /\ host.res = Ok =>
          /\ BalanceWritten(host.written[host.pos], host.arg)
          /\ TrxCountWritten(host.written[host.pos], host.arg)
          /\ CodeWritten(host.written[host.pos], host.pre[host.pos], host.arg)
          /\ StorageWritten(host.written[host.pos], host.pre[host.pos], host.arg)

\* -------------------------------------------------------------------- C33
\* C33: storage on a view whose code_size is 0 fails with
\* UninitializedAccount and leaves the storage region as it was; an update
\* with storage items or reset_storage on a view whose code_size is 0 after
\* the code step fails with UninitializedAccount.
C33_UninitializedStorage ==
  /\ (HostOp("storage") /\ host.pre[host.pos].account_data.code_size = 0) =>
        /\ host.res = Err("UninitializedAccount")
        /\ accounts[host.pos].storage = host.pre[host.pos].storage
  /\ (/\ HostOp("update")
      /\ host.arg.reset \/ host.arg.items # <<>>
      /\ \/ host.arg.code = None /\ host.pre[host.pos].account_data.code_size = 0
         \/ host.arg.code = Some(<<>>) /\ host.pre[host.pos].account_data.code_size = 0) =>
        /\ host.res = Err("UninitializedAccount")
        /\ host.written[host.pos].storage = host.pre[host.pos].storage

\* An update carried empty code and a storage item to a view without code.
C33_Witness ==
  /\ HostOp("update")
  /\ host.arg.code = Some(<<>>)
  /\ host.arg.items # <<>>
  /\ host.res = Err("UninitializedAccount")

\* -------------------------------------------------------------------- C34
\* C34: no operation of the backend (create, apply, call_inner, a read)
\* adds or removes an account view, and every alias entry's position is the
\* position of a view.
C34_ViewsFixed ==
  /\ Len(accounts) = Len(host.pre)
  /\ Len(host.written) = Len(host.pre)
  /\ \A i \in DOMAIN aliases : aliases[i][2] \in DOMAIN accounts

\* An apply wrote to a view through an alias that a create had registered.
C34_Witness ==
  /\ HostOp("apply")
  /\ host.res = Ok
  /\ \E c \in host.created, j \in DOMAIN host.updates[1] :
       c.pos # 0 /\ host.updates[1][j].m.address = c.address /\ host.updates[1][j].pos = c.pos

\* -------------------------------------------------------------------- C35

\* The stepped frame is at a CALL within the depth limit: call_inner is asked.
AtCallHook == CleanStep /\ PreOp = "CALL" /\ ~AtCallTooDeep

\* The arguments of that CALL.
CallAddress == Op(PreTop.rt.code[PreTop.rt.pc]).arg

CallInputOf == CallInput(PreTop.rt, CallAddress)

CallContext ==
  [address |-> CallAddress, caller |-> PreTop.rt.context.address, apparent_value |-> 0]

\* What call_inner answers to it.
HookRes == CallInner(CallAddress, CallInputOf)

\* C35: when call_inner returns a result, call returns that exit reason and
\* return data and raises no CallInterrupt: the Machine pushes no frame and
\* enters no sub-state, and the calling frame goes on with the result. When
\* call_inner returns None, call raises CallInterrupt with the call's own
\* code_address, input and context, and the frame pushed runs them.
C35_HookShortCircuits ==
  /\ (AtCallHook /\ HookRes # None) =>
       /\ last.ev = <<"call_inner">>
       /\ Len(runtime) = Len(last.runtime)
       /\ state = last.state
       /\ HookRes[1][2][1] # "Fatal" =>
            runtime[Len(runtime)].rt =
              RtPushed([PreTop.rt EXCEPT !.pc = @ + 1], HookRes[1][2], HookRes[1][3])
  /\ (AtCallHook /\ HookRes = None) =>
       /\ last.ev = <<"call_inner", "CallInterrupt", "enter", "touch", "push">>
       /\ Len(runtime) = Len(last.runtime) + 1
       /\ Len(state) = Len(last.state) + 1
       /\ runtime[Len(runtime)] =
            [rt |-> RuntimeNew(Code(last.state, backend, CallAddress), CallInputOf,
                               CallContext),
             reason |-> Some("Call")]

\* A CALL to the sentinel was answered by call_inner, and the frame went on.
C35_Witness ==
  /\ AtCallHook
  /\ HookRes # None
  /\ CallAddress = Addr.sol
  /\ Len(runtime) = Len(last.runtime)
  /\ runtime[Len(runtime)].rt.pc = PreTop.rt.pc + 1

\* -------------------------------------------------------------------- C36

\* C36 (as claimed): a Write instruction on an account whose code_size is
\* already non-zero is rejected with an error and leaves the code unchanged.
C36_WriteKeepsCode ==
  (HostOp("write") /\ host.pre[host.pos].header.code_size # 0) =>
     /\ host.res # Ok
     /\ accounts[host.pos].code = host.pre[host.pos].code

\* -------------------------------------------------------------------- C37

\* The sub-states entered and not yet exited: all but the base one.
OpenSubstates(st) == Len(st) - 1

\* C37: at every step boundary reached while call_begin and every step()
\* before it returned Ok, there are as many open sub-states as frames.
C37_SubstatesMatchFrames ==
  ~hist.errSeen => OpenSubstates(state) = Len(runtime)

\* A child frame succeeded and was popped in a step() that returned Ok, with
\* its parent still running.
C37_Witness ==
  /\ CleanStep
  /\ ~hist.errSeen
  /\ Has(last.ev, "pop")
  /\ Len(last.runtime) = 2
  /\ Len(runtime) = 1
  /\ OpenSubstates(state) = 1

\* -------------------------------------------------------------------- C38

ExecuteStepped == last.kind = "step" /\ last.by = "execute"

\* The frame stepped in it, running until then, exited with something other
\* than a nested Succeed.
ExitEndsRun ==
  /\ last.runtime # <<>>
  /\ PreTop.rt.status = 0
  /\ PreCap.cap[1] = "Exit"
  /\ ~(PreCap.cap[2][1] = "Succeed" /\ Len(last.runtime) > 1)

\* C39 (as claimed): execute() returns exactly when a step() returns Err,
\* with that reason; on an empty frame stack step() returns Ok and changes
\* nothing, so execute() goes on looping; and once a frame is pushed,
\* execute() returns as soon as a frame exits with anything other than a
\* nested Succeed.
C39_ExecuteReturns ==
  ExecuteStepped =>
    /\ (drv.pc = "idle") <=> (last.res[1] = "Err")
    /\ last.res[1] = "Err" => drv.ret = Some(last.res[2])
    /\ last.runtime = <<>> =>
         /\ last.res = <<"Ok">>
         /\ runtime = <<>>
         /\ state = last.state
         /\ drv.pc = "execute"
    /\ ExitEndsRun => (drv.pc = "idle" /\ drv.ret = Some(PreCap.cap[2]))

\* -------------------------------------------------------------------- C40

\* The balances of these accounts, added up.
RECURSIVE TotalBalance(_, _, _)
TotalBalance(st, be, as) ==
  IF as = {} THEN 0
  ELSE Balance(st, be, CHOOSE a \in as : TRUE)
       + TotalBalance(st, be, as \ {CHOOSE a \in as : TRUE})

\* C40: mark_delete(addr, addr) succeeds and leaves addr with balance 0 and
\* marked deleted: the transfer to itself changes nothing and reset_balance
\* then takes addr's balance out of the total.
C40_SelfDestructToSelf ==
  (host.op = "mark_delete" /\ host.address = host.target) =>
     /\ host.res = <<"Ok">>
     /\ Balance(state, backend, host.address) = 0
     /\ Deleted(state, host.address)
     /\ TotalBalance(state, backend, HandlerAddrs)
          = TotalBalance(host.pre, backend, HandlerAddrs)
            - Balance(host.pre, backend, host.address)
     /\ \A a \in HandlerAddrs \ {host.address} :
          Balance(state, backend, a) = Balance(host.pre, backend, a)

\* A contract with a balance was destroyed in favour of itself.
C40_Witness ==
  /\ host.op = "mark_delete"
  /\ host.address = host.target
  /\ host.res = <<"Ok">>
  /\ Balance(host.pre, backend, host.address) > 0
  /\ Balance(state, backend, host.address) = 0

====
